---- MODULE Spec2Model ----
(***************************************************************************)
(* Model of the capture engine in src/src/background/index.ts (the MV3     *)
(* service worker): session controller (attachToTab / detachFromTab /      *)
(* onDetach), event router (handleDebuggerEvent), body fetcher             *)
(* (buildRequestBody / buildResponseBody), record store (pushRecord) and   *)
(* broadcast hub (panelPorts, broadcast), together with the observer-side  *)
(* parser parseBackgroundMessage of the panel (src/unnamed/part_001).      *)
(*                                                                         *)
(* One action is one JavaScript macrotask: a chrome.* callback or listener *)
(* invocation together with every promise continuation (microtask) it      *)
(* makes runnable.  An async function therefore runs from one chrome       *)
(* callback boundary to the next in a single action.                       *)
(*                                                                         *)
(* A nullable value (T | null) is the empty tuple for null and <<v>> for a *)
(* value v.                                                                *)
(***************************************************************************)
EXTENDS Integers, Sequences, FiniteSets, TLC

VARIABLES
    attachedTabId,    \* index.ts:29   number | null
    panelPorts,       \* index.ts:32   Set<Port>
    pendingRequests,  \* index.ts:57   Map<string, PendingRequest>
    recordBuffer,     \* index.ts:60   ResponseRecord[]
    hostAttached,     \* chrome.debugger: tabs this extension is attached to
    portState,        \* chrome.runtime: each port connected ("open"), disconnected
                      \*   after it was registered ("closed"), or neither ("none");
                      \*   "broken": registered, postMessage on it throws, its
                      \*   onDisconnect listener has not run
    sessionOps,       \* suspended attachToTab / detachFromTab calls
    tasks,            \* suspended handleLoadingFinished / handleLoadingFailed calls
    outbox,           \* port -> messages posted to it by the last macrotask
    last,             \* history: which handler the last macrotask ran
    history,          \* history: every record handed to pushRecord (store spec)
    announcedIds,     \* history: ids announced since attachToTab last emptied the store
    headersSeen       \* history: id -> status and mimeType of the last headers event
                      \*          delivered for the id's pending entry

vars == <<attachedTabId, panelPorts, pendingRequests, recordBuffer, hostAttached,
          portState, sessionOps, tasks, outbox, last, history, announcedIds,
          headersSeen>>

---------------------------------------------------------------------------
(* Bounds of the model *)

\* suspended attach/detach calls at one time
MaxOps == 2
\* suspended loading-finished / loading-failed handlers at one time
MaxTasks == 2
\* pushes in the record-store specification
MaxPushes == 5
\* capacity of the record store: index.ts:14 has 200, the model a capacity small
\* enough for pushes at capacity to be reached
MAX_RECORDS == 2

(* Program constants *)

\* index.ts:17
MAX_BODY_BYTES == 200 * 1024
\* index.ts:20
MAX_REQUEST_BODY_BYTES == 200 * 1024
\* index.ts:26
ALLOWED_RESOURCE_TYPES == {"Fetch", "XHR"}

(* Input domains *)

Tabs == {1, 2}
Ports == {"p1", "p2"}
RequestIds == {"r1", "r2"}
Stamps == {1000, 2000}
Url == "https://x/y"
SmallText == "a=1"
BigText == "BIG"
BodyText == "{a:1}"

None == <<>>
Some(x) == <<x>>
IsNull(o) == o = <<>>
The(o) == o[1]

\* index.ts:124-127  TextEncoder().encode(text).length; BigText stands for a
\* text one byte over the request-body threshold
getTextByteLength(text) ==
    IF text = BigText THEN MAX_REQUEST_BODY_BYTES + 1 ELSE Len(text)

\* an allow-list that refuses nothing
isAllowedResourceTypeAny(value) == value = value

\* index.ts:87-89
isAllowedResourceType(value) == value \in ALLOWED_RESOURCE_TYPES

\* index.ts:82-84; the message is a fixed non-empty text per code
createError(code, cause) == [code |-> code, message |-> "msg:" \o code, cause |-> cause]

---------------------------------------------------------------------------
(* Broadcast hub *)

NoOut == [p \in Ports |-> <<>>]

\* port.postMessage(m) for every port of ps, appended to what out already holds
Post(out, ps, m) == [p \in Ports |-> IF p \in ps THEN Append(out[p], m) ELSE out[p]]

\* index.ts:93, 593  a Set is iterated in insertion order: the order in which the
\* ports of a specification that breaks ports are registered
PortOrder == <<"p1", "p2">>

Precedes(q, p) ==
    \E i, j \in 1..Len(PortOrder) : PortOrder[i] = q /\ PortOrder[j] = p /\ i <= j

\* index.ts:93-94, 593-594  the ports of a for..of loop over panelPorts whose
\* postMessage is reached: the loop has no try/catch, so the first postMessage
\* that throws ends it
PortsReached(ports) ==
    IF \A q \in ports : portState[q] # "broken" THEN ports
    ELSE {p \in ports : \A q \in ports : Precedes(q, p) => portState[q] # "broken"}

\* index.ts:92-95
broadcast(out, ports, message) == Post(out, PortsReached(ports), message)

StatusMsg(tab) == [type |-> "status.update", attachedTabId |-> tab]
SnapshotMsg(records, tab) ==
    [type |-> "records.snapshot", records |-> records, attachedTabId |-> tab]
AddedMsg(record) == [type |-> "records.added", record |-> record]
ErrorMsg(error) == [type |-> "error", error |-> error]

\* a snapshot that leaves the stored records out
sendSnapshotEmpty(out, port, records, tab) == Post(out, {port}, SnapshotMsg(<<>>, tab))

\* index.ts:98-104
sendSnapshot(out, port, records, tab) == Post(out, {port}, SnapshotMsg(records, tab))

\* index.ts:107-109
sendStatusUpdate(out, ports, tab) == broadcast(out, ports, StatusMsg(tab))

\* index.ts:112-114
sendError(out, ports, error) == broadcast(out, ports, ErrorMsg(error))

\* index.ts:592-595
sendSnapshotToAll(out, ports, records, tab) ==
    Post(out, PortsReached(ports), SnapshotMsg(records, tab))

---------------------------------------------------------------------------
(* Record store *)

\* pushRecord without the eviction of index.ts:118-119
pushRecordBufferNoEvict(buf, record) == Append(buf, record)

\* pushRecord evicting only above capacity (> for >= at index.ts:118)
pushRecordBufferLate(buf, record) ==
    IF Len(buf) > MAX_RECORDS THEN Append(Tail(buf), record) ELSE Append(buf, record)

\* pushRecord putting the record at the front of the buffer
pushRecordBufferFront(buf, record) ==
    IF Len(buf) >= MAX_RECORDS THEN <<record>> \o Tail(buf) ELSE <<record>> \o buf

\* index.ts:118-120  the buffer after pushRecord(record)
pushRecordBuffer(buf, record) ==
    IF Len(buf) >= MAX_RECORDS THEN Append(Tail(buf), record) ELSE Append(buf, record)

\* index.ts:117-122
pushRecord(record) ==
    /\ recordBuffer' = pushRecordBuffer(recordBuffer, record)
    /\ outbox' = broadcast(NoOut, panelPorts, AddedMsg(record))

---------------------------------------------------------------------------
(* Pending request table: a Map is a function on the keys it holds *)

EmptyMap == <<>>
MapHas(m, k) == k \in DOMAIN m
MapSet(m, k, v) == [x \in (DOMAIN m) \cup {k} |-> IF x = k THEN v ELSE m[x]]
MapDelete(m, k) == [x \in (DOMAIN m) \ {k} |-> m[x]]

RemoveAt(s, i) == SubSeq(s, 1, i - 1) \o SubSeq(s, i + 1, Len(s))

Last(op, tab, req, ok, stale) ==
    [op |-> op, tab |-> tab, req |-> req, ok |-> ok, stale |-> stale,
     pre |-> attachedTabId, len |-> Len(recordBuffer)]

\* every suspended handler is marked when the Pending Request Table is cleared
\* under it (history only: no code reads the mark)
MarkStale(ts) == [i \in 1..Len(ts) |-> [ts[i] EXCEPT !.stale = TRUE]]

---------------------------------------------------------------------------
(* JavaScript values as they travel through chrome.runtime.Port.postMessage *)

JUndef == [t |-> "undefined"]
JNull == [t |-> "null"]
JStr(s) == [t |-> "string", s |-> s]
JNum(n) == [t |-> "number", n |-> n]
JBool(b) == [t |-> "boolean", b |-> b]
JObj(f) == [t |-> "object", f |-> f]
JArr(a) == [t |-> "array", a |-> a]

\* value.k : a property the object does not hold reads as undefined
Get(v, k) == IF k \in DOMAIN v.f THEN v.f[k] ELSE JUndef

\* index.ts:254-256, part_001:336-338   typeof value === 'object' && value !== null
isRecord(value) == value.t \in {"object", "array"}

\* index.ts:259-261, part_001:341-343
asString(value) == IF value.t = "string" THEN Some(value.s) ELSE None

\* index.ts:264-266, part_001:346-348
asNumber(value) == IF value.t = "number" THEN Some(value.n) ELSE None

\* index.ts:269-271, part_001:351-353
asBoolean(value) == IF value.t = "boolean" THEN Some(value.b) ELSE None

\* !s for s : string | null
FalsyStr(o) == IsNull(o) \/ The(o) = ""

\* index.ts:274-309
parsePanelMessage(value) ==
    IF ~isRecord(value) \/ value.t = "array" THEN None
    ELSE LET messageType == asString(Get(value, "type"))
             tabId == asNumber(Get(value, "tabId"))
         IN  IF FalsyStr(messageType) THEN None
             ELSE IF The(messageType) = "debugger.attach"
                  THEN IF IsNull(tabId) THEN None
                       ELSE Some([type |-> "debugger.attach", tabId |-> The(tabId)])
             ELSE IF The(messageType) = "debugger.detach"
                  THEN IF IsNull(tabId) THEN None
                       ELSE Some([type |-> "debugger.detach", tabId |-> The(tabId)])
             ELSE IF The(messageType) \in {"debugger.status", "records.get", "records.clear"}
                  THEN Some([type |-> The(messageType)])
             ELSE None

\* what a panel port may deliver: every well-formed command and malformed ones
RawPanelMessages ==
    << JObj([type |-> JStr("debugger.attach"), tabId |-> JNum(1)]),
       JObj([type |-> JStr("debugger.attach"), tabId |-> JNum(2)]),
       JObj([type |-> JStr("debugger.detach"), tabId |-> JNum(1)]),
       JObj([type |-> JStr("debugger.detach"), tabId |-> JNum(2)]),
       JObj([type |-> JStr("debugger.status")]),
       JObj([type |-> JStr("records.get")]),
       JObj([type |-> JStr("records.clear")]),
       JObj([type |-> JStr("debugger.attach")]),
       JObj([type |-> JStr("debugger.attach"), tabId |-> JStr("1")]),
       JObj([type |-> JStr("bogus")]),
       JObj([tabId |-> JNum(1)]),
       JStr("records.clear"),
       JNull,
       JObj([type |-> JStr("debugger.detach"), tabId |-> JNull]),
       JArr(<<JStr("records.clear")>>) >>

---------------------------------------------------------------------------
(* Session controller *)

Op(kind, tabId, pc, old) == [kind |-> kind, tabId |-> tabId, pc |-> pc, old |-> old]

\* index.ts:542-557  attachToTab from "clear the temporary data" to the suspension
\* at chrome.debugger.attach
attachToTabClearAndCall(tabId, ops) ==
    /\ pendingRequests' = EmptyMap
    /\ recordBuffer' = <<>>
    /\ tasks' = MarkStale(tasks)
    /\ announcedIds' = {}
    /\ headersSeen' = EmptyMap
    /\ sessionOps' = Append(ops, Op("attach", tabId, "attach", None))

\* attachToTab without the early return of index.ts:535-536
attachToTabNoGuard(tabId) ==
    IF ~IsNull(attachedTabId)
    THEN /\ sessionOps' = Append(sessionOps, Op("attach", tabId, "detach", attachedTabId))
         /\ UNCHANGED <<attachedTabId, pendingRequests, recordBuffer, hostAttached, tasks,
                        announcedIds, headersSeen>>
    ELSE /\ attachToTabClearAndCall(tabId, sessionOps)
         /\ UNCHANGED <<attachedTabId, hostAttached>>

\* index.ts:534-557  attachToTab(tabId) up to its first suspension
attachToTab(tabId) ==
    IF attachedTabId = Some(tabId)
    THEN UNCHANGED <<attachedTabId, pendingRequests, recordBuffer, hostAttached,
                     sessionOps, tasks, announcedIds, headersSeen>>
    ELSE IF ~IsNull(attachedTabId)
    THEN \* await detachFromTab(attachedTabId): suspended in chrome.debugger.detach
         /\ sessionOps' = Append(sessionOps, Op("attach", tabId, "detach", attachedTabId))
         /\ UNCHANGED <<attachedTabId, pendingRequests, recordBuffer, hostAttached, tasks,
                        announcedIds, headersSeen>>
    ELSE /\ attachToTabClearAndCall(tabId, sessionOps)
         /\ UNCHANGED <<attachedTabId, hostAttached>>

\* detachFromTab without the early return of index.ts:569-570
detachFromTabNoGuard(tabId) ==
    /\ sessionOps' = Append(sessionOps, Op("detach", tabId, "detach", Some(tabId)))
    /\ UNCHANGED <<attachedTabId, pendingRequests, recordBuffer, hostAttached, tasks,
                   announcedIds, headersSeen>>

\* index.ts:568-576  detachFromTab(tabId) up to its suspension
detachFromTab(tabId) ==
    IF attachedTabId # Some(tabId)
    THEN UNCHANGED <<attachedTabId, pendingRequests, recordBuffer, hostAttached,
                     sessionOps, tasks, announcedIds, headersSeen>>
    ELSE /\ sessionOps' = Append(sessionOps, Op("detach", tabId, "detach", Some(tabId)))
         /\ UNCHANGED <<attachedTabId, pendingRequests, recordBuffer, hostAttached, tasks,
                        announcedIds, headersSeen>>

\* clearRecords without pendingRequests.clear() of index.ts:587
clearRecordsKeepsPending ==
    /\ recordBuffer' = <<>>
    /\ outbox' = sendSnapshotToAll(NoOut, panelPorts, <<>>, attachedTabId)
    /\ UNCHANGED <<attachedTabId, pendingRequests, hostAttached, sessionOps, tasks,
                   announcedIds, headersSeen>>

\* index.ts:585-589
clearRecords ==
    /\ recordBuffer' = <<>>
    /\ pendingRequests' = EmptyMap
    /\ tasks' = MarkStale(tasks)
    /\ outbox' = sendSnapshotToAll(NoOut, panelPorts, <<>>, attachedTabId)
    /\ UNCHANGED <<attachedTabId, hostAttached, sessionOps, announcedIds, headersSeen>>

\* index.ts:598-626
handlePanelMessage(message) ==
    IF message.type = "debugger.attach"
    THEN /\ attachToTab(message.tabId)
         /\ outbox' = NoOut
         /\ last' = Last("attach", Some(message.tabId), None, TRUE, FALSE)
    ELSE IF message.type = "debugger.detach"
    THEN /\ detachFromTab(message.tabId)
         /\ outbox' = NoOut
         /\ last' = Last("detach", Some(message.tabId), None, TRUE, FALSE)
    ELSE IF message.type = "debugger.status"
    THEN /\ outbox' = sendStatusUpdate(NoOut, panelPorts, attachedTabId)
         /\ last' = Last("status", None, None, TRUE, FALSE)
         /\ UNCHANGED <<attachedTabId, pendingRequests, recordBuffer, hostAttached,
                        sessionOps, tasks, announcedIds, headersSeen>>
    ELSE IF message.type = "records.get"
    THEN /\ outbox' = sendSnapshotToAll(NoOut, panelPorts, recordBuffer, attachedTabId)
         /\ last' = Last("records.get", None, None, TRUE, FALSE)
         /\ UNCHANGED <<attachedTabId, pendingRequests, recordBuffer, hostAttached,
                        sessionOps, tasks, announcedIds, headersSeen>>
    ELSE /\ message.type = "records.clear"
         /\ clearRecords
         /\ last' = Last("records.clear", None, None, TRUE, FALSE)

\* a port.onMessage listener that answers a message it cannot parse with an
\* error event
PanelMessageReportsMalformed(port, rawMessage) ==
    /\ port \in panelPorts
    /\ LET message == parsePanelMessage(rawMessage)
       IN  IF IsNull(message)
           THEN /\ outbox' = sendError(NoOut, panelPorts,
                                       createError("BAD_MESSAGE", "undefined"))
                /\ last' = Last("panel.dropped", None, None, FALSE, FALSE)
                /\ UNCHANGED <<attachedTabId, pendingRequests, recordBuffer,
                               hostAttached, sessionOps, tasks, announcedIds, headersSeen>>
           ELSE handlePanelMessage(The(message))
    /\ UNCHANGED <<panelPorts, history, portState>>

\* index.ts:636-642  port.onMessage listener
PanelMessage(port, rawMessage) ==
    /\ port \in panelPorts
    /\ LET message == parsePanelMessage(rawMessage)
       IN  IF IsNull(message)
           THEN /\ outbox' = NoOut
                /\ last' = Last("panel.dropped", None, None, FALSE, FALSE)
                /\ UNCHANGED <<attachedTabId, pendingRequests, recordBuffer,
                               hostAttached, sessionOps, tasks, announcedIds, headersSeen>>
           ELSE handlePanelMessage(The(message))
    /\ UNCHANGED <<panelPorts, history, portState>>

\* index.ts:629-634  chrome.runtime.onConnect
PortConnect(port, name) ==
    /\ portState[port] \in {"none", "closed"}
    /\ portState' = [portState EXCEPT ![port] = "open"]
    /\ IF name # "panel"
       THEN /\ outbox' = NoOut
            /\ UNCHANGED panelPorts
       ELSE /\ panelPorts' = panelPorts \cup {port}
            /\ outbox' = sendSnapshot(NoOut, port, recordBuffer, attachedTabId)
    /\ last' = Last("connect", None, None, name = "panel", FALSE)
    /\ UNCHANGED <<attachedTabId, pendingRequests, recordBuffer, hostAttached,
                   sessionOps, tasks, history, announcedIds, headersSeen>>

\* a port whose disconnect leaves it registered
PortDisconnectKeeps(port) ==
    /\ portState[port] \in {"open", "broken"}
    /\ portState' = [portState EXCEPT
                        ![port] = IF port \in panelPorts THEN "closed" ELSE "none"]
    /\ outbox' = NoOut
    /\ last' = Last("disconnect", None, None, port \in panelPorts, FALSE)
    /\ UNCHANGED <<attachedTabId, panelPorts, pendingRequests, recordBuffer, hostAttached,
                   sessionOps, tasks, history, announcedIds, headersSeen>>

\* index.ts:644-646  port.onDisconnect: the browser closes the port; the listener
\* exists on the ports that connected as "panel" only
PortDisconnect(port) ==
    /\ portState[port] \in {"open", "broken"}
    /\ portState' = [portState EXCEPT
                        ![port] = IF port \in panelPorts THEN "closed" ELSE "none"]
    /\ panelPorts' = panelPorts \ {port}
    /\ outbox' = NoOut
    /\ last' = Last("disconnect", None, None, port \in panelPorts, FALSE)
    /\ UNCHANGED <<attachedTabId, pendingRequests, recordBuffer, hostAttached,
                   sessionOps, tasks, history, announcedIds, headersSeen>>

\* chrome.runtime: the channel of a registered port fails (its other end is gone
\* or refuses the message) before the onDisconnect listener of index.ts:644-646
\* has run; port.postMessage throws on it from now on
PortBreak(port) ==
    /\ portState[port] = "open"
    /\ port \in panelPorts
    /\ portState' = [portState EXCEPT ![port] = "broken"]
    /\ outbox' = NoOut
    /\ last' = Last("break", None, None, TRUE, FALSE)
    /\ UNCHANGED <<attachedTabId, panelPorts, pendingRequests, recordBuffer, hostAttached,
                   sessionOps, tasks, history, announcedIds, headersSeen>>

\* the chrome.debugger.detach callback when a failed release rejects: the error
\* reaches the panel and the session state is left as it was
DetachCallbackSurfacing(i) ==
    /\ i \in 1..Len(sessionOps)
    /\ sessionOps[i].pc = "detach"
    /\ LET op == sessionOps[i]
           rest == RemoveAt(sessionOps, i)
           released == The(op.old) \in hostAttached
       IN  /\ hostAttached' = hostAttached \ {The(op.old)}
           /\ IF ~released
              THEN /\ outbox' = sendError(NoOut, panelPorts,
                                          createError("DETACH_FAILED", "lastError"))
                   /\ sessionOps' = rest
                   /\ UNCHANGED <<attachedTabId, pendingRequests, recordBuffer, tasks,
                                  announcedIds, headersSeen>>
              ELSE /\ attachedTabId' = None
                   /\ outbox' = sendStatusUpdate(NoOut, panelPorts, None)
                   /\ IF op.kind = "attach"
                      THEN attachToTabClearAndCall(op.tabId, rest)
                      ELSE /\ pendingRequests' = EmptyMap
                           /\ tasks' = MarkStale(tasks)
                           /\ sessionOps' = rest
                           /\ UNCHANGED <<recordBuffer, announcedIds, headersSeen>>
           /\ last' = Last(IF op.kind = "attach" THEN "switched" ELSE "detached",
                           op.old, None, released, FALSE)
    /\ UNCHANGED <<panelPorts, history, portState>>

\* a detachFromTab that empties the Record Store when it completes
DetachCallbackClearsStore(i) ==
    /\ i \in 1..Len(sessionOps)
    /\ sessionOps[i].pc = "detach"
    /\ LET op == sessionOps[i]
           rest == RemoveAt(sessionOps, i)
       IN  /\ hostAttached' = hostAttached \ {The(op.old)}
           /\ attachedTabId' = None
           /\ outbox' = sendStatusUpdate(NoOut, panelPorts, None)
           /\ IF op.kind = "attach"
              THEN attachToTabClearAndCall(op.tabId, rest)
              ELSE /\ pendingRequests' = EmptyMap
                   /\ recordBuffer' = <<>>
                   /\ tasks' = MarkStale(tasks)
                   /\ sessionOps' = rest
                   /\ UNCHANGED <<announcedIds, headersSeen>>
           /\ last' = Last(IF op.kind = "attach" THEN "switched" ELSE "detached",
                           op.old, None, The(op.old) \in hostAttached, FALSE)
    /\ UNCHANGED <<panelPorts, history, portState>>

\* index.ts:572-581  the chrome.debugger.detach callback of suspended call i: the
\* host releases the tab if it held it (lastError is not read), then detachFromTab
\* finishes; an attachToTab awaiting it goes on to index.ts:542-557
DetachCallback(i) ==
    /\ i \in 1..Len(sessionOps)
    /\ sessionOps[i].pc = "detach"
    /\ LET op == sessionOps[i]
           rest == RemoveAt(sessionOps, i)
       IN  /\ hostAttached' = hostAttached \ {The(op.old)}
           /\ attachedTabId' = None
           /\ outbox' = sendStatusUpdate(NoOut, panelPorts, None)
           /\ IF op.kind = "attach"
              THEN attachToTabClearAndCall(op.tabId, rest)
              ELSE /\ pendingRequests' = EmptyMap
                   /\ tasks' = MarkStale(tasks)
                   /\ sessionOps' = rest
                   /\ UNCHANGED <<recordBuffer, announcedIds, headersSeen>>
           /\ last' = Last(IF op.kind = "attach" THEN "switched" ELSE "detached",
                           op.old, None, The(op.old) \in hostAttached, FALSE)
    /\ UNCHANGED <<panelPorts, history, portState>>

\* index.ts:547-560, 600-602  the chrome.debugger.attach callback of suspended call
\* i: it succeeds only on a tab the host does not hold yet and may fail for any
\* other cause (tab gone, another debugger); success goes on to Network.enable
AttachCallback(i, ok) ==
    /\ i \in 1..Len(sessionOps)
    /\ sessionOps[i].pc = "attach"
    /\ ok => sessionOps[i].tabId \notin hostAttached
    /\ LET op == sessionOps[i]
       IN  IF ok
           THEN /\ hostAttached' = hostAttached \cup {op.tabId}
                /\ sessionOps' = [sessionOps EXCEPT ![i].pc = "enable"]
                /\ outbox' = NoOut
           ELSE /\ sessionOps' = RemoveAt(sessionOps, i)
                /\ outbox' = sendError(NoOut, panelPorts,
                                       createError("ATTACH_FAILED", "lastError"))
                /\ UNCHANGED hostAttached
    /\ last' = Last("attachDone", Some(sessionOps[i].tabId), None, ok, FALSE)
    /\ UNCHANGED <<attachedTabId, panelPorts, pendingRequests, recordBuffer, tasks, history, portState, announcedIds, headersSeen>>

\* index.ts:560-564, 600-602  the Network.enable callback of suspended call i: it
\* fails when the host no longer holds the tab and may fail for any other cause
EnableCallback(i, ok) ==
    /\ i \in 1..Len(sessionOps)
    /\ sessionOps[i].pc = "enable"
    /\ ok => sessionOps[i].tabId \in hostAttached
    /\ LET op == sessionOps[i]
       IN  IF ok
           THEN /\ attachedTabId' = Some(op.tabId)
                /\ outbox' = broadcast(sendStatusUpdate(NoOut, panelPorts, Some(op.tabId)),
                                       panelPorts, SnapshotMsg(recordBuffer, Some(op.tabId)))
           ELSE /\ outbox' = sendError(NoOut, panelPorts,
                                       createError("ATTACH_FAILED", "lastError"))
                /\ UNCHANGED attachedTabId
    /\ sessionOps' = RemoveAt(sessionOps, i)
    /\ last' = Last("enableDone", Some(sessionOps[i].tabId), None, ok, FALSE)
    /\ UNCHANGED <<panelPorts, pendingRequests, recordBuffer, hostAttached, tasks, history, portState, announcedIds, headersSeen>>

\* chrome.debugger.onDetach without pendingRequests.clear() of index.ts:660
RevokeKeepsTable(tabId) ==
    /\ tabId \in hostAttached
    /\ hostAttached' = hostAttached \ {tabId}
    /\ IF Some(tabId) # attachedTabId
       THEN /\ outbox' = NoOut
            /\ UNCHANGED <<attachedTabId, pendingRequests, tasks>>
       ELSE /\ attachedTabId' = None
            /\ outbox' = sendStatusUpdate(NoOut, panelPorts, None)
            /\ UNCHANGED <<pendingRequests, tasks>>
    /\ last' = Last("revoke", Some(tabId), None, Some(tabId) = attachedTabId, FALSE)
    /\ UNCHANGED <<panelPorts, recordBuffer, sessionOps, history, portState, announcedIds, headersSeen>>

\* chrome.debugger.onDetach without the early return of index.ts:657-658
RevokeAnyTab(tabId) ==
    /\ tabId \in hostAttached
    /\ hostAttached' = hostAttached \ {tabId}
    /\ attachedTabId' = None
    /\ pendingRequests' = EmptyMap
    /\ tasks' = MarkStale(tasks)
    /\ outbox' = sendStatusUpdate(NoOut, panelPorts, None)
    /\ last' = Last("revoke", Some(tabId), None, Some(tabId) = attachedTabId, FALSE)
    /\ UNCHANGED <<panelPorts, recordBuffer, sessionOps, history, portState, announcedIds, headersSeen>>

\* index.ts:656-662  chrome.debugger.onDetach: the host revokes a tab it held
Revoke(tabId) ==
    /\ tabId \in hostAttached
    /\ hostAttached' = hostAttached \ {tabId}
    /\ IF Some(tabId) # attachedTabId
       THEN /\ outbox' = NoOut
            /\ UNCHANGED <<attachedTabId, pendingRequests, tasks>>
       ELSE /\ attachedTabId' = None
            /\ pendingRequests' = EmptyMap
            /\ tasks' = MarkStale(tasks)
            /\ outbox' = sendStatusUpdate(NoOut, panelPorts, None)
    /\ last' = Last("revoke", Some(tabId), None, Some(tabId) = attachedTabId, FALSE)
    /\ UNCHANGED <<panelPorts, recordBuffer, sessionOps, history, portState, announcedIds, headersSeen>>

---------------------------------------------------------------------------
(* Body fetcher *)

TextBody(text) == [text |-> text, truncated |-> FALSE, error |-> None]
ErrorBody(truncated, error) == [text |-> None, truncated |-> truncated, error |-> Some(error)]

\* buildRequestBody without the final threshold check of index.ts:222-229
requestBodyFinalUnchecked(resolvedPostData) == TextBody(resolvedPostData)

\* index.ts:176-193, 214-236  buildRequestBody up to the read command: the body
\* when no command is needed, null when Network.getRequestPostData is to be sent
requestBodyFinal(resolvedPostData) ==
    IF IsNull(resolvedPostData) THEN TextBody(None)
    ELSE IF getTextByteLength(The(resolvedPostData)) > MAX_REQUEST_BODY_BYTES
    THEN ErrorBody(TRUE, createError("REQUEST_BODY_TOO_LARGE", "undefined"))
    ELSE TextBody(resolvedPostData)

\* buildRequestBody without the early return of index.ts:177-182
requestBodyBeforeReadAlways(tabId, hasPostData, requestPostData) ==
    IF ~IsNull(requestPostData)
          /\ getTextByteLength(The(requestPostData)) > MAX_REQUEST_BODY_BYTES
    THEN Some(ErrorBody(TRUE, createError("REQUEST_BODY_TOO_LARGE", "undefined")))
    ELSE IF IsNull(requestPostData) /\ ~IsNull(tabId) THEN None
    ELSE Some(requestBodyFinal(requestPostData))

requestBodyBeforeRead(tabId, hasPostData, requestPostData) ==
    IF ~hasPostData /\ IsNull(requestPostData) THEN Some(TextBody(None))
    ELSE IF ~IsNull(requestPostData)
            /\ getTextByteLength(The(requestPostData)) > MAX_REQUEST_BODY_BYTES
    THEN Some(ErrorBody(TRUE, createError("REQUEST_BODY_TOO_LARGE", "undefined")))
    ELSE IF IsNull(requestPostData) /\ ~IsNull(tabId) THEN None
    ELSE Some(requestBodyFinal(requestPostData))

\* index.ts:197-236  buildRequestBody from the command's callback on; result is
\* null when the command failed (lastError)
requestBodyAfterRead(result) ==
    IF IsNull(result)
    THEN ErrorBody(FALSE, createError("REQUEST_BODY_READ_FAILED", "lastError"))
    ELSE requestBodyFinal(asString(Get(The(result), "postData")))

WithBase64(body, isBase64) ==
    [text |-> body.text, isBase64 |-> isBase64, truncated |-> body.truncated,
     error |-> body.error]

\* buildResponseBody skipping the read at the threshold already
responseBodyBeforeReadAtLimit(encodedDataLength) ==
    IF encodedDataLength >= MAX_BODY_BYTES
    THEN Some(WithBase64(ErrorBody(TRUE, createError("BODY_TOO_LARGE", "undefined")), FALSE))
    ELSE None

\* index.ts:131-138  buildResponseBody up to the read command: the body when the
\* size threshold skips the read, null when Network.getResponseBody is to be sent
responseBodyBeforeRead(encodedDataLength) ==
    IF encodedDataLength > MAX_BODY_BYTES
    THEN Some(WithBase64(ErrorBody(TRUE, createError("BODY_TOO_LARGE", "undefined")), FALSE))
    ELSE None

\* index.ts:148-166  buildResponseBody from the command's callback on
responseBodyAfterRead(result) ==
    IF IsNull(result)
    THEN WithBase64(ErrorBody(FALSE, createError("BODY_READ_FAILED", "lastError")), FALSE)
    ELSE LET isBase64 == asBoolean(Get(The(result), "base64Encoded"))
         IN  WithBase64(TextBody(asString(Get(The(result), "body"))),
                        IF IsNull(isBase64) THEN FALSE ELSE The(isBase64))

\* index.ts:510-515
requestFailedBody ==
    WithBase64(ErrorBody(FALSE, createError("REQUEST_FAILED", "undefined")), FALSE)

---------------------------------------------------------------------------
(* Event router *)

\* index.ts:312-353; now is Date.now()
parseRequestWillBeSent(value, now) ==
    IF ~isRecord(value) THEN None
    ELSE LET requestId == asString(Get(value, "requestId"))
             requestValue == Get(value, "request")
         IN  IF FalsyStr(requestId) \/ ~isRecord(requestValue) THEN None
             ELSE LET url == asString(Get(requestValue, "url"))
                      method == asString(Get(requestValue, "method"))
                      requestPostData == asString(Get(requestValue, "postData"))
                      hasPostData == asBoolean(Get(requestValue, "hasPostData"))
                      resourceType == asString(Get(value, "type"))
                  IN  IF FalsyStr(url) \/ FalsyStr(method) THEN None
                      ELSE IF FalsyStr(resourceType) THEN None
                      ELSE IF ~isAllowedResourceType(The(resourceType)) THEN None
                      ELSE Some([requestId |-> The(requestId),
                                 url |-> The(url),
                                 method |-> The(method),
                                 hasPostData |-> IF IsNull(hasPostData)
                                                 THEN ~IsNull(requestPostData)
                                                 ELSE The(hasPostData),
                                 requestPostData |-> requestPostData,
                                 status |-> 0,
                                 mimeType |-> "",
                                 resourceType |-> The(resourceType),
                                 timeStamp |-> now])

\* index.ts:356-382
applyResponseReceived(pending, value) ==
    IF ~isRecord(value) \/ ~isRecord(Get(value, "response")) THEN None
    ELSE LET responseValue == Get(value, "response")
             status == asNumber(Get(responseValue, "status"))
             mimeType == asString(Get(responseValue, "mimeType"))
             resourceType == asString(Get(value, "type"))
         IN  IF IsNull(status) \/ FalsyStr(mimeType) THEN None
             ELSE IF ~FalsyStr(resourceType) /\ ~isAllowedResourceType(The(resourceType))
             THEN None
             ELSE Some([pending EXCEPT
                          !.status = The(status),
                          !.mimeType = The(mimeType),
                          !.resourceType = IF IsNull(resourceType) THEN @
                                           ELSE The(resourceType)])

\* index.ts:385-400
parseLoadingFinished(value) ==
    IF ~isRecord(value) THEN None
    ELSE LET requestId == asString(Get(value, "requestId"))
             encodedDataLength == asNumber(Get(value, "encodedDataLength"))
         IN  IF FalsyStr(requestId) \/ IsNull(encodedDataLength) THEN None
             ELSE Some([requestId |-> The(requestId),
                        encodedDataLength |-> The(encodedDataLength)])

\* index.ts:403-413
parseLoadingFailed(value) ==
    IF ~isRecord(value) THEN None
    ELSE LET requestId == asString(Get(value, "requestId"))
         IN  IF FalsyStr(requestId) THEN None ELSE Some([requestId |-> The(requestId)])

\* what a Network.responseReceived event carries for a request: its requestId,
\* status and mimeType, when the event names a request, has a response with a
\* status and a mimeType, and has no resource type or an allowed one
HeadersOf(value) ==
    IF ~isRecord(value) \/ ~isRecord(Get(value, "response")) THEN None
    ELSE LET requestId == asString(Get(value, "requestId"))
             status == asNumber(Get(Get(value, "response"), "status"))
             mimeType == asString(Get(Get(value, "response"), "mimeType"))
             resourceType == asString(Get(value, "type"))
         IN  IF FalsyStr(requestId) \/ IsNull(status) \/ IsNull(mimeType) THEN None
             ELSE IF ~IsNull(resourceType) /\ ~isAllowedResourceType(The(resourceType))
             THEN None
             ELSE Some([requestId |-> The(requestId), status |-> The(status),
                        mimeType |-> The(mimeType)])

\* index.ts:481-492, 517-528
makeRecord(pending, requestId, encodedDataLength, requestBody, body) ==
    [id |-> requestId,
     url |-> pending.url,
     method |-> pending.method,
     status |-> pending.status,
     mimeType |-> pending.mimeType,
     resourceType |-> pending.resourceType,
     timeStamp |-> pending.timeStamp,
     encodedDataLength |-> encodedDataLength,
     requestBody |-> requestBody,
     body |-> body]

Task(kind, requestId, pending, encodedDataLength) ==
    [kind |-> kind, requestId |-> requestId, pending |-> pending,
     encodedDataLength |-> encodedDataLength, pc |-> "requestBody",
     tabId |-> attachedTabId, requestBody |-> TextBody(None), stale |-> FALSE,
     seen |-> IF MapHas(headersSeen, requestId) THEN Some(headersSeen[requestId])
              ELSE None]

\* a handler's end without pendingRequests.delete(requestId) of index.ts:493, 529
finishHandlerKeepsEntry(task, i, requestBody, body) ==
    LET record == makeRecord(task.pending, task.requestId, task.encodedDataLength,
                             requestBody, body)
    IN  /\ pendingRequests' = pendingRequests
        /\ pushRecord(record)
        /\ tasks' = IF i = 0 THEN tasks ELSE RemoveAt(tasks, i)

\* a handler's end that empties the Pending Request Table
finishHandlerClearsTable(task, i, requestBody, body) ==
    LET record == makeRecord(task.pending, task.requestId, task.encodedDataLength,
                             requestBody, body)
    IN  /\ pendingRequests' = EmptyMap
        /\ pushRecord(record)
        /\ tasks' = IF i = 0 THEN tasks ELSE RemoveAt(tasks, i)

\* index.ts:493-494, 529-530 with 117-122  the handler's last statements; i is
\* the handler's place in tasks, 0 when it never suspended
finishHandler(task, i, requestBody, body) ==
    LET record == makeRecord(task.pending, task.requestId, task.encodedDataLength,
                             requestBody, body)
    IN  /\ pendingRequests' = MapDelete(pendingRequests, task.requestId)
        /\ pushRecord(record)
        /\ tasks' = IF i = 0 THEN tasks ELSE RemoveAt(tasks, i)

\* a loading-failed handler that goes on to read a response body as a
\* loading-finished handler does
afterRequestBodyReadsAlways(task, i, requestBody) ==
    LET body == responseBodyBeforeRead(task.encodedDataLength)
    IN  IF ~IsNull(body) THEN finishHandler(task, i, requestBody, The(body))
        ELSE LET next == [task EXCEPT !.pc = "responseBody",
                                      !.tabId = attachedTabId,
                                      !.requestBody = requestBody]
             IN  /\ tasks' = IF i = 0 THEN Append(tasks, next)
                             ELSE [tasks EXCEPT ![i] = next]
                 /\ outbox' = NoOut
                 /\ UNCHANGED <<pendingRequests, recordBuffer>>

\* index.ts:479-494, 509-530  the handler once its request body is built: it
\* ends at once, or suspends in Network.getResponseBody sent to the tab that
\* attachedTabId names now
afterRequestBody(task, i, requestBody) ==
    IF task.kind = "failed" THEN finishHandler(task, i, requestBody, requestFailedBody)
    ELSE LET body == responseBodyBeforeRead(task.encodedDataLength)
         IN  IF ~IsNull(body) THEN finishHandler(task, i, requestBody, The(body))
             ELSE LET next == [task EXCEPT !.pc = "responseBody",
                                           !.tabId = attachedTabId,
                                           !.requestBody = requestBody]
                  IN  /\ tasks' = IF i = 0 THEN Append(tasks, next)
                                  ELSE [tasks EXCEPT ![i] = next]
                      /\ outbox' = NoOut
                      /\ UNCHANGED <<pendingRequests, recordBuffer>>

\* a handler that does not return when the table has no entry for the request,
\* and goes on with an entry of empty fields
startHandlerNoLookup(kind, requestId, encodedDataLength) ==
    IF IsNull(attachedTabId)
    THEN /\ outbox' = NoOut
         /\ UNCHANGED <<pendingRequests, recordBuffer, tasks>>
    ELSE LET pending == IF MapHas(pendingRequests, requestId)
                        THEN pendingRequests[requestId]
                        ELSE [requestId |-> requestId, url |-> "", method |-> "",
                              hasPostData |-> FALSE, requestPostData |-> None,
                              status |-> 0, mimeType |-> "", resourceType |-> "",
                              timeStamp |-> 0]
             task == Task(kind, requestId, pending, encodedDataLength)
             requestBody == requestBodyBeforeRead(attachedTabId, pending.hasPostData,
                                                  pending.requestPostData)
         IN  IF IsNull(requestBody)
             THEN /\ tasks' = Append(tasks, task)
                  /\ outbox' = NoOut
                  /\ UNCHANGED <<pendingRequests, recordBuffer>>
             ELSE afterRequestBody(task, 0, The(requestBody))

\* index.ts:467-479, 498-508  handleLoadingFinished / handleLoadingFailed up to the
\* first suspension
startHandler(kind, requestId, encodedDataLength) ==
    IF IsNull(attachedTabId) \/ ~MapHas(pendingRequests, requestId)
    THEN /\ outbox' = NoOut
         /\ UNCHANGED <<pendingRequests, recordBuffer, tasks>>
    ELSE LET pending == pendingRequests[requestId]
             task == Task(kind, requestId, pending, encodedDataLength)
             requestBody == requestBodyBeforeRead(attachedTabId, pending.hasPostData,
                                                  pending.requestPostData)
         IN  IF IsNull(requestBody)
             THEN /\ tasks' = Append(tasks, task)
                  /\ outbox' = NoOut
                  /\ UNCHANGED <<pendingRequests, recordBuffer>>
             ELSE afterRequestBody(task, 0, The(requestBody))

\* history: what the event adds to announcedIds and headersSeen
noteEvent(tabId, method, params, now) ==
    /\ announcedIds' =
          IF /\ Some(tabId) = attachedTabId
             /\ method = "Network.requestWillBeSent"
             /\ ~IsNull(parseRequestWillBeSent(params, now))
          THEN announcedIds \cup {The(parseRequestWillBeSent(params, now)).requestId}
          ELSE announcedIds
    /\ headersSeen' =
          IF Some(tabId) # attachedTabId THEN headersSeen
          ELSE IF method = "Network.requestWillBeSent"
          THEN IF IsNull(parseRequestWillBeSent(params, now)) THEN headersSeen
               ELSE MapDelete(headersSeen, The(parseRequestWillBeSent(params, now)).requestId)
          ELSE IF method = "Network.responseReceived" /\ ~IsNull(HeadersOf(params))
                  /\ MapHas(pendingRequests, The(HeadersOf(params)).requestId)
          THEN MapSet(headersSeen, The(HeadersOf(params)).requestId,
                      [status |-> The(HeadersOf(params)).status,
                       mimeType |-> The(HeadersOf(params)).mimeType])
          ELSE headersSeen

\* index.ts:420-463  the event of the attached tab, by its method
routeEvent(tabId, method, params, now) ==
    IF method = "Network.requestWillBeSent"
    THEN LET pending == parseRequestWillBeSent(params, now)
         IN  /\ pendingRequests' =
                   IF IsNull(pending) THEN pendingRequests
                   ELSE MapSet(pendingRequests, The(pending).requestId, The(pending))
             /\ outbox' = NoOut
             /\ last' = Last(method, Some(tabId), asString(Get(params, "requestId")),
                             ~IsNull(pending), FALSE)
             /\ UNCHANGED <<recordBuffer, tasks>>
    ELSE IF method = "Network.responseReceived"
    THEN LET requestId == IF isRecord(params) THEN asString(Get(params, "requestId"))
                          ELSE None
             updated == IF FalsyStr(requestId) \/ ~MapHas(pendingRequests, The(requestId))
                        THEN None
                        ELSE applyResponseReceived(pendingRequests[The(requestId)], params)
         IN  /\ pendingRequests' =
                   IF IsNull(updated) THEN pendingRequests
                   ELSE MapSet(pendingRequests, The(requestId), The(updated))
             /\ outbox' = NoOut
             /\ last' = Last(method, Some(tabId), requestId, ~IsNull(updated), FALSE)
             /\ UNCHANGED <<recordBuffer, tasks>>
    ELSE IF method = "Network.loadingFinished"
    THEN LET info == parseLoadingFinished(params)
         IN  IF IsNull(info)
             THEN /\ outbox' = NoOut
                  /\ last' = Last(method, Some(tabId), None, FALSE, FALSE)
                  /\ UNCHANGED <<pendingRequests, recordBuffer, tasks>>
             ELSE /\ startHandler("finished", The(info).requestId,
                                  The(info).encodedDataLength)
                  /\ last' = Last(method, Some(tabId), Some(The(info).requestId),
                                  MapHas(pendingRequests, The(info).requestId), FALSE)
    ELSE /\ method = "Network.loadingFailed"
         /\ LET info == parseLoadingFailed(params)
            IN  IF IsNull(info)
                THEN /\ outbox' = NoOut
                     /\ last' = Last(method, Some(tabId), None, FALSE, FALSE)
                     /\ UNCHANGED <<pendingRequests, recordBuffer, tasks>>
                ELSE /\ startHandler("failed", The(info).requestId, 0)
                     /\ last' = Last(method, Some(tabId), Some(The(info).requestId),
                                     MapHas(pendingRequests, The(info).requestId), FALSE)

\* handleDebuggerEvent without the early return of index.ts:417-418
handleDebuggerEventAnyTab(tabId, method, params, now) ==
    /\ tabId \in hostAttached
    /\ noteEvent(tabId, method, params, now)
    /\ routeEvent(tabId, method, params, now)
    /\ UNCHANGED <<attachedTabId, panelPorts, hostAttached, sessionOps, history, portState>>

\* index.ts:416-464  chrome.debugger.onEvent; the host delivers events of the tabs
\* this extension is attached to
handleDebuggerEvent(tabId, method, params, now) ==
    /\ tabId \in hostAttached
    /\ noteEvent(tabId, method, params, now)
    /\ IF Some(tabId) # attachedTabId
       THEN /\ outbox' = NoOut
            /\ last' = Last(method, Some(tabId), None, FALSE, FALSE)
            /\ UNCHANGED <<pendingRequests, recordBuffer, tasks>>
       ELSE routeEvent(tabId, method, params, now)
    /\ UNCHANGED <<attachedTabId, panelPorts, hostAttached, sessionOps, history, portState>>

\* index.ts:202-211 with 239-251  the Network.getRequestPostData callback of
\* suspended handler i; result is null for lastError. The command succeeds only on
\* a tab the host holds
RequestBodyCallback(i, result) ==
    /\ i \in 1..Len(tasks)
    /\ tasks[i].pc = "requestBody"
    /\ ~IsNull(result) => ~IsNull(tasks[i].tabId) /\ The(tasks[i].tabId) \in hostAttached
    /\ afterRequestBody(tasks[i], i, requestBodyAfterRead(result))
    /\ last' = Last("requestBodyRead", tasks[i].tabId, Some(tasks[i].requestId),
                    ~IsNull(result), tasks[i].stale)
    /\ UNCHANGED <<attachedTabId, panelPorts, hostAttached, sessionOps, history, portState, announcedIds, headersSeen>>

\* index.ts:148-166 with 239-251  the Network.getResponseBody callback of
\* suspended handler i
ResponseBodyCallback(i, result) ==
    /\ i \in 1..Len(tasks)
    /\ tasks[i].pc = "responseBody"
    /\ ~IsNull(result) => ~IsNull(tasks[i].tabId) /\ The(tasks[i].tabId) \in hostAttached
    /\ finishHandler(tasks[i], i, tasks[i].requestBody, responseBodyAfterRead(result))
    /\ last' = Last("responseBodyRead", tasks[i].tabId, Some(tasks[i].requestId),
                    ~IsNull(result), tasks[i].stale)
    /\ UNCHANGED <<attachedTabId, panelPorts, hostAttached, sessionOps, history, portState, announcedIds, headersSeen>>

---------------------------------------------------------------------------
(* What the instrumentation source delivers *)

\* the request member of Network.requestWillBeSent: no body, a body to be read
\* by command, a body inline, an inline body over the threshold, no body and
\* hasPostData false
RequestObjects ==
    << JObj([url |-> JStr(Url), method |-> JStr("GET")]),
       JObj([url |-> JStr(Url), method |-> JStr("POST"), hasPostData |-> JBool(TRUE)]),
       JObj([url |-> JStr(Url), method |-> JStr("POST"), hasPostData |-> JBool(TRUE),
             postData |-> JStr(SmallText)]),
       JObj([url |-> JStr(Url), method |-> JStr("POST"), postData |-> JStr(BigText)]),
       JObj([url |-> JStr(Url), method |-> JStr("GET"), hasPostData |-> JBool(FALSE)]) >>

RequestWillBeSentParams(requestId, resourceType, k) ==
    JObj([requestId |-> JStr(requestId), type |-> JStr(resourceType),
          request |-> RequestObjects[k]])

\* Network.responseReceived: without a type, with an allowed type, with a type
\* that is not allowed, with an empty mimeType
ResponseReceivedParams(requestId, k) ==
    CASE k = 1 -> JObj([requestId |-> JStr(requestId),
                        response |-> JObj([status |-> JNum(200),
                                           mimeType |-> JStr("application/json")])])
      [] k = 2 -> JObj([requestId |-> JStr(requestId), type |-> JStr("XHR"),
                        response |-> JObj([status |-> JNum(404),
                                           mimeType |-> JStr("text/plain")])])
      [] k = 3 -> JObj([requestId |-> JStr(requestId), type |-> JStr("Image"),
                        response |-> JObj([status |-> JNum(200),
                                           mimeType |-> JStr("image/png")])])
      [] k = 4 -> JObj([requestId |-> JStr(requestId),
                        response |-> JObj([status |-> JNum(204), mimeType |-> JStr("")])])

LoadingFinishedParams(requestId, encodedDataLength) ==
    JObj([requestId |-> JStr(requestId), encodedDataLength |-> JNum(encodedDataLength)])

LoadingFailedParams(requestId) == JObj([requestId |-> JStr(requestId)])

\* results of Network.getRequestPostData: a text, a text over the threshold, no
\* postData member, failure
PostDataResults ==
    << Some(JObj([postData |-> JStr(SmallText)])),
       Some(JObj([postData |-> JStr(BigText)])),
       Some(JObj(<<>>)),
       None >>

\* results of Network.getResponseBody: a text, a base64 text, no body member,
\* failure
ResponseBodyResults ==
    << Some(JObj([body |-> JStr(BodyText), base64Encoded |-> JBool(FALSE)])),
       Some(JObj([body |-> JStr(BodyText), base64Encoded |-> JBool(TRUE)])),
       Some(JObj(<<>>)),
       None >>

---------------------------------------------------------------------------
(* The engine *)

\* index.ts:29-60  the module's state when the service worker has started
Init ==
    /\ attachedTabId = None
    /\ panelPorts = {}
    /\ pendingRequests = EmptyMap
    /\ recordBuffer = <<>>
    /\ hostAttached = {}
    /\ portState = [p \in Ports |-> "none"]
    /\ sessionOps = <<>>
    /\ tasks = <<>>
    /\ outbox = NoOut
    /\ last = [op |-> "init", tab |-> None, req |-> None, ok |-> TRUE, stale |-> FALSE,
               pre |-> None, len |-> 0]
    /\ history = <<>>
    /\ announcedIds = {}
    /\ headersSeen = EmptyMap

\* index.ts:649-662  the registered listeners and the pending chrome callbacks,
\* each over the inputs D
Connects(D) == \E port \in D.ports, name \in D.names : PortConnect(port, name)

Disconnects(D) == \E port \in D.ports : PortDisconnect(port)

Commands(D) ==
    \E port \in D.ports, k \in D.commands : PanelMessage(port, RawPanelMessages[k])

Handshakes ==
    \/ \E i \in 1..Len(sessionOps) : DetachCallback(i)
    \/ \E i \in 1..Len(sessionOps), ok \in BOOLEAN : AttachCallback(i, ok)
    \/ \E i \in 1..Len(sessionOps), ok \in BOOLEAN : EnableCallback(i, ok)

Revokes(D) == \E tabId \in D.tabs : Revoke(tabId)

Announced(D) ==
    \E tabId \in D.tabs, requestId \in D.requestIds, type \in D.types,
       k \in D.requests, now \in D.stamps :
       handleDebuggerEvent(tabId, "Network.requestWillBeSent",
                           RequestWillBeSentParams(requestId, type, k), now)

Headers(D) ==
    \E tabId \in D.tabs, requestId \in D.requestIds, k \in D.responses :
       handleDebuggerEvent(tabId, "Network.responseReceived",
                           ResponseReceivedParams(requestId, k), 0)

Finished(D) ==
    \E tabId \in D.tabs, requestId \in D.requestIds, n \in D.lengths :
       handleDebuggerEvent(tabId, "Network.loadingFinished",
                           LoadingFinishedParams(requestId, n), 0)

Failed(D) ==
    \E tabId \in D.tabs, requestId \in D.requestIds :
       handleDebuggerEvent(tabId, "Network.loadingFailed",
                           LoadingFailedParams(requestId), 0)

PostDataRead(D) ==
    \E i \in 1..Len(tasks), k \in D.postDataResults :
       RequestBodyCallback(i, PostDataResults[k])

BodyRead(D) ==
    \E i \in 1..Len(tasks), k \in D.bodyResults :
       ResponseBodyCallback(i, ResponseBodyResults[k])

\* the bound on what is suspended at one time
Bounded(maxOps, maxTasks) == Len(sessionOps') <= maxOps /\ Len(tasks') <= maxTasks

\* the inputs of the session specification: two tabs, one panel, one request
\* that needs its response body read
SessionInputs ==
    [ports |-> {"p1"}, names |-> {"panel"}, commands |-> {1, 2, 3, 4, 7},
     tabs |-> Tabs, requestIds |-> {"r1"}, types |-> {"Fetch"}, requests |-> {1},
     stamps |-> {1000}, lengths |-> {10}, bodyResults |-> {1, 4}]

Next ==
    \/ Connects(SessionInputs)
    \/ Commands(SessionInputs) /\ Bounded(MaxOps, MaxTasks)
    \/ Handshakes
    \/ Revokes(SessionInputs)
    \/ Announced(SessionInputs)
    \/ Finished(SessionInputs) /\ Bounded(MaxOps, MaxTasks)
    \/ BodyRead(SessionInputs)

Spec == Init /\ [][Next]_vars

\* the same engine when the panel sends a command only while no attach or detach
\* is suspended
SerialNext ==
    \/ Connects(SessionInputs)
    \/ Commands(SessionInputs) /\ sessionOps = <<>>
    \/ Handshakes
    \/ Revokes(SessionInputs)
    \/ Announced(SessionInputs)
    \/ Finished(SessionInputs) /\ Bounded(MaxOps, MaxTasks)
    \/ BodyRead(SessionInputs)

SpecSerial == Init /\ [][SerialNext]_vars

---------------------------------------------------------------------------
(* The record store alone: pushRecord applied to an empty store *)

StoreIds == {"r1", "r2", "r3"}

SampleRecord(id) ==
    makeRecord(The(parseRequestWillBeSent(RequestWillBeSentParams(id, "Fetch", 1), 1000)),
               id, 10, TextBody(None), responseBodyAfterRead(ResponseBodyResults[1]))

Push(record) ==
    /\ Len(history) < MaxPushes
    /\ pushRecord(record)
    /\ history' = Append(history, record)
    /\ last' = Last("push", None, Some(record.id), TRUE, FALSE)
    /\ UNCHANGED <<attachedTabId, panelPorts, pendingRequests, hostAttached, portState,
                   sessionOps, tasks, announcedIds, headersSeen>>

StoreNext == \E id \in StoreIds : Push(SampleRecord(id))

SpecStore == Init /\ [][StoreNext]_vars

\* C7: after N pushes into an empty store of capacity MAX_RECORDS the store holds
\* min(N, MAX_RECORDS) records, the most recently pushed ones in push order
StoreHoldsLatest ==
    LET n == Len(history)
        k == IF n < MAX_RECORDS THEN n ELSE MAX_RECORDS
    IN  /\ Len(recordBuffer) = k
        /\ recordBuffer = SubSeq(history, n - k + 1, n)

\* more records were pushed than the store holds, the last one into a full store
\* whose oldest record differed from the one pushed
PushedBeyondCapacity ==
    /\ Len(history) = MaxPushes
    /\ Len(history) > MAX_RECORDS
    /\ last.op = "push"
    /\ last.len = MAX_RECORDS
    /\ history[Len(history) - MAX_RECORDS].id # history[Len(history)].id

---------------------------------------------------------------------------
(* The observer: what a port carries and how the panel parses it *)

\* a port carries JSON: a member whose value is undefined is left out, null stays
WireCause(cause) ==
    IF cause = "undefined" THEN <<>> ELSE [cause |-> JObj([message |-> JStr(cause)])]

WireError(error) ==
    JObj([code |-> JStr(error.code), message |-> JStr(error.message)]
         @@ WireCause(error.cause))

WireText(text) == IF IsNull(text) THEN JNull ELSE JStr(The(text))

WireOptError(error) == IF IsNull(error) THEN <<>> ELSE [error |-> WireError(The(error))]

WireRequestBody(b) ==
    JObj([text |-> WireText(b.text), truncated |-> JBool(b.truncated)]
         @@ WireOptError(b.error))

WireResponseBody(b) ==
    JObj([text |-> WireText(b.text), isBase64 |-> JBool(b.isBase64),
          truncated |-> JBool(b.truncated)] @@ WireOptError(b.error))

WireRecord(r) ==
    JObj([id |-> JStr(r.id), url |-> JStr(r.url), method |-> JStr(r.method),
          status |-> JNum(r.status), mimeType |-> JStr(r.mimeType),
          resourceType |-> JStr(r.resourceType), timeStamp |-> JNum(r.timeStamp),
          encodedDataLength |-> JNum(r.encodedDataLength),
          requestBody |-> WireRequestBody(r.requestBody),
          body |-> WireResponseBody(r.body)])

WireTab(tab) == IF IsNull(tab) THEN JNull ELSE JNum(The(tab))

WireMessage(m) ==
    CASE m.type = "status.update" ->
            JObj([type |-> JStr(m.type), attachedTabId |-> WireTab(m.attachedTabId)])
      [] m.type = "records.snapshot" ->
            JObj([type |-> JStr(m.type),
                  records |-> JArr([k \in 1..Len(m.records) |-> WireRecord(m.records[k])]),
                  attachedTabId |-> WireTab(m.attachedTabId)])
      [] m.type = "records.added" ->
            JObj([type |-> JStr(m.type), record |-> WireRecord(m.record)])
      [] m.type = "error" ->
            JObj([type |-> JStr(m.type), error |-> WireError(m.error)])

\* a member of a value that need not be an object with members
Member(v, k) == IF v.t = "object" THEN Get(v, k) ELSE JUndef

\* part_001:357-369
parseAppError(value) ==
    IF ~isRecord(value) THEN None
    ELSE LET code == asString(Member(value, "code"))
             message == asString(Member(value, "message"))
         IN  IF FalsyStr(code) \/ FalsyStr(message) THEN None
             ELSE Some([code |-> The(code), message |-> The(message),
                        cause |-> Member(value, "cause")])

\* part_001:376-380, 408-412  the text member: null, a string, or a refusal
parseText(textValue) ==
    IF textValue.t = "null" THEN Some(None)
    ELSE IF IsNull(asString(textValue)) THEN None
    ELSE Some(asString(textValue))

\* part_001:388-394, 418-424  the error member: left out, an error, or a refusal
parseOptError(errorValue) ==
    IF errorValue.t = "undefined" THEN Some(None)
    ELSE IF IsNull(parseAppError(errorValue)) THEN None
    ELSE Some(parseAppError(errorValue))

\* part_001:372-401
parseResponseBody(value) ==
    IF ~isRecord(value) THEN None
    ELSE LET text == parseText(Member(value, "text"))
             isBase64 == asBoolean(Member(value, "isBase64"))
             truncated == asBoolean(Member(value, "truncated"))
             error == parseOptError(Member(value, "error"))
         IN  IF IsNull(text) THEN None
             ELSE IF IsNull(isBase64) \/ IsNull(truncated) THEN None
             ELSE IF IsNull(error) THEN None
             ELSE Some([text |-> The(text), isBase64 |-> The(isBase64),
                        truncated |-> The(truncated), error |-> The(error)])

\* part_001:404-430
parseRequestBody(value) ==
    IF ~isRecord(value) THEN None
    ELSE LET text == parseText(Member(value, "text"))
             truncated == asBoolean(Member(value, "truncated"))
             error == parseOptError(Member(value, "error"))
         IN  IF IsNull(text) THEN None
             ELSE IF IsNull(truncated) THEN None
             ELSE IF IsNull(error) THEN None
             ELSE Some([text |-> The(text), truncated |-> The(truncated),
                        error |-> The(error)])

\* part_001:433-465
parseResponseRecord(value) ==
    IF ~isRecord(value) THEN None
    ELSE LET id == asString(Member(value, "id"))
             url == asString(Member(value, "url"))
             method == asString(Member(value, "method"))
             status == asNumber(Member(value, "status"))
             mimeType == asString(Member(value, "mimeType"))
             resourceType == asString(Member(value, "resourceType"))
             timeStamp == asNumber(Member(value, "timeStamp"))
             encodedDataLength == asNumber(Member(value, "encodedDataLength"))
             requestBody == parseRequestBody(Member(value, "requestBody"))
             body == parseResponseBody(Member(value, "body"))
         IN  IF \/ FalsyStr(id) \/ FalsyStr(url) \/ FalsyStr(method) \/ IsNull(status)
                \/ FalsyStr(mimeType) \/ FalsyStr(resourceType) \/ IsNull(timeStamp)
                \/ IsNull(encodedDataLength)
             THEN None
             ELSE IF IsNull(requestBody) \/ IsNull(body) THEN None
             ELSE Some([id |-> The(id), url |-> The(url), method |-> The(method),
                        status |-> The(status), mimeType |-> The(mimeType),
                        resourceType |-> The(resourceType), timeStamp |-> The(timeStamp),
                        encodedDataLength |-> The(encodedDataLength),
                        requestBody |-> The(requestBody), body |-> The(body)])

\* part_001:479-481, 491-493  attachedTabId: a number, null, or a refusal
parseTab(tabValue) ==
    IF IsNull(asNumber(tabValue)) /\ tabValue.t # "null" THEN None
    ELSE Some(asNumber(tabValue))

\* part_001:468-526
parseBackgroundMessage(value) ==
    IF ~isRecord(value) THEN None
    ELSE LET messageType == asString(Member(value, "type"))
         IN  IF FalsyStr(messageType) THEN None
             ELSE IF The(messageType) = "status.update"
             THEN LET tab == parseTab(Member(value, "attachedTabId"))
                  IN  IF IsNull(tab) THEN None
                      ELSE Some([type |-> "status.update", attachedTabId |-> The(tab)])
             ELSE IF The(messageType) = "records.snapshot"
             THEN LET records == Member(value, "records")
                      tab == parseTab(Member(value, "attachedTabId"))
                  IN  IF records.t # "array" THEN None
                      ELSE IF IsNull(tab) THEN None
                      ELSE IF \E k \in 1..Len(records.a) :
                                 IsNull(parseResponseRecord(records.a[k]))
                      THEN None
                      ELSE Some([type |-> "records.snapshot",
                                 records |-> [k \in 1..Len(records.a) |->
                                                The(parseResponseRecord(records.a[k]))],
                                 attachedTabId |-> The(tab)])
             ELSE IF The(messageType) = "records.added"
             THEN LET parsedRecord == parseResponseRecord(Member(value, "record"))
                  IN  IF IsNull(parsedRecord) THEN None
                      ELSE Some([type |-> "records.added", record |-> The(parsedRecord)])
             ELSE IF The(messageType) = "error"
             THEN LET parsedError == parseAppError(Member(value, "error"))
                  IN  IF IsNull(parsedError) THEN None
                      ELSE Some([type |-> "error", error |-> The(parsedError)])
             ELSE None

\* the messages posted in the last step that the panel's parser refuses
Dropped(out) ==
    {m \in UNION {{out[p][k] : k \in 1..Len(out[p])} : p \in Ports} :
        IsNull(parseBackgroundMessage(WireMessage(m)))}

---------------------------------------------------------------------------
(* The event router on one tab, with every kind of event and body *)

MaxRouterOps == 1
MaxRouterTasks == 1
MaxRouterRecords == 1

RouterInputs ==
    [ports |-> {"p1"}, names |-> {"panel"}, commands |-> {1, 6},
     tabs |-> {1}, requestIds |-> {"r1"}, types |-> {"Fetch"},
     requests |-> {1, 2, 3, 4, 5}, stamps |-> {1000},
     lengths |-> {10, MAX_BODY_BYTES, MAX_BODY_BYTES + 1}, responses |-> {1, 2, 3, 4},
     postDataResults |-> {1, 2, 3, 4}, bodyResults |-> {1, 2, 3, 4}]

\* the headers event delivered while a handler is suspended
LateHeadersInputs == [RouterInputs EXCEPT !.responses = {2}]

\* a request is announced while the store holds fewer than MaxRouterRecords
\* records; every kind of headers event is delivered before the terminal event,
\* one kind after it
RouterNext ==
    \/ Connects(RouterInputs)
    \/ Commands(RouterInputs) /\ Bounded(MaxRouterOps, MaxRouterTasks)
    \/ \E i \in 1..Len(sessionOps), ok \in BOOLEAN : AttachCallback(i, ok)
    \/ \E i \in 1..Len(sessionOps), ok \in BOOLEAN : EnableCallback(i, ok)
    \/ Announced(RouterInputs) /\ Len(recordBuffer) < MaxRouterRecords
    \/ Headers(RouterInputs) /\ tasks = <<>>
    \/ Headers(LateHeadersInputs) /\ tasks # <<>>
    \/ Finished(RouterInputs) /\ Bounded(MaxRouterOps, MaxRouterTasks)
    \/ Failed(RouterInputs) /\ Bounded(MaxRouterOps, MaxRouterTasks)
    \/ PostDataRead(RouterInputs)
    \/ BodyRead(RouterInputs)

SpecRouter == Init /\ [][RouterNext]_vars

\* C3: every message the engine posts (status.update, records.snapshot,
\* records.added, error), whatever the record in it, is accepted by the panel's
\* parseBackgroundMessage
OutboundMessagesAccepted == Dropped(outbox) = {}

\* a record of a request that failed before any response headers were merged was
\* posted, and so were messages the parser accepts
PostedBeforeHeaders ==
    /\ last.op = "Network.loadingFailed"
    /\ \E p \in panelPorts : \E k \in 1..Len(outbox[p]) :
          /\ outbox[p][k].type = "records.added"
          /\ outbox[p][k].record.status = 0
          /\ outbox[p][k].record.mimeType = ""

---------------------------------------------------------------------------
(* Claims checked under Spec *)

NoRecordsAdded(out) ==
    \A p \in Ports : \A k \in 1..Len(out[p]) : out[p][k].type # "records.added"

\* C1: when the completion of a body read belongs to a handler under which the
\* session was reset (detach, attach, revoke, records.clear), it appends no
\* record to the Record Store and broadcasts no records.added
StaleResultDiscarded ==
    [][last'.stale => recordBuffer' = recordBuffer /\ NoRecordsAdded(outbox')]_vars

\* C2: the Record Store never holds two records with the same id, and every
\* record in it has the id of a request announced in the current session
RecordIdsUniqueAndOfThisSession ==
    /\ \A i, j \in 1..Len(recordBuffer) :
          i # j => recordBuffer[i].id # recordBuffer[j].id
    /\ \A i \in 1..Len(recordBuffer) : recordBuffer[i].id \in announcedIds

\* C4: the engine holds an attachment at the instrumentation source on at most
\* one target at any instant
AtMostOneAttachedTarget == Cardinality(hostAttached) <= 1

\* C5: no attach, detach or clear command begins while an attach or a detach is
\* suspended at its handshake or release
SessionOpsSerialized ==
    [][last'.op \in {"attach", "detach", "records.clear"} => sessionOps = <<>>]_vars

\* C6: the Record Store never holds more than MAX_RECORDS records
RecordStoreBounded == Len(recordBuffer) <= MAX_RECORDS

\* a record was pushed into a full store, which is still full
PushedAtCapacity ==
    /\ last.op = "responseBodyRead"
    /\ last.len = MAX_RECORDS
    /\ Len(recordBuffer) = MAX_RECORDS

\* C8: attach(t) while attached to t changes neither attachedTabId, the Pending
\* Request Table nor the Record Store, sends no command to the instrumentation
\* source and posts no message
AttachIsIdempotent ==
    [][(last'.op = "attach" /\ last'.pre = last'.tab)
         => /\ UNCHANGED <<attachedTabId, pendingRequests, recordBuffer, hostAttached,
                           sessionOps, tasks, panelPorts>>
            /\ outbox' = NoOut]_vars

\* attach(t) was handled while attached to t, with a request pending, a record
\* stored and a body read outstanding
AttachedTwice ==
    /\ last.op = "attach"
    /\ last.pre = last.tab
    /\ pendingRequests # EmptyMap
    /\ recordBuffer # <<>>
    /\ tasks # <<>>

\* C9: when attach(t) succeeds, the Pending Request Table and the Record Store
\* are empty at the moment attachedTabId becomes t, and every observer is sent a
\* status update carrying t followed by a snapshot without records
AttachSuccessStartsEmpty ==
    (last.op = "enableDone" /\ last.ok)
       => /\ attachedTabId = last.tab
          /\ pendingRequests = EmptyMap
          /\ recordBuffer = <<>>
          /\ \A p \in panelPorts :
                outbox[p] = <<StatusMsg(last.tab), SnapshotMsg(<<>>, last.tab)>>

\* C10: when attach(t) fails at the handshake or at enabling event delivery,
\* attachedTabId is null afterwards and every observer is sent exactly one
\* ATTACH_FAILED error
AttachFailureLeavesUnattached ==
    (last.op \in {"attachDone", "enableDone"} /\ ~last.ok)
       => /\ attachedTabId = None
          /\ \A p \in panelPorts :
                outbox[p] = <<ErrorMsg(createError("ATTACH_FAILED", "lastError"))>>

---------------------------------------------------------------------------
(* The allow-list: request r1 is announced as Fetch or XHR, request r2 only as *)
(* Image; headers and terminal events arrive for both                          *)

MaxFilterOps == 1
MaxFilterTasks == 1

FilterInputs ==
    [ports |-> {"p1"}, names |-> {"panel"}, commands |-> {1, 6}, tabs |-> {1},
     requestIds |-> {"r1"}, types |-> {"Fetch", "XHR"}, requests |-> {1},
     stamps |-> {1000}, lengths |-> {10}, responses |-> {1, 2, 3}, bodyResults |-> {1, 4}]

RefusedInputs == [FilterInputs EXCEPT !.requestIds = {"r2"}, !.types = {"Image"}]

BothIdsInputs == [FilterInputs EXCEPT !.requestIds = {"r1", "r2"}]

FilterNext ==
    \/ Connects(FilterInputs)
    \/ Commands(FilterInputs) /\ Bounded(MaxFilterOps, MaxFilterTasks)
    \/ \E i \in 1..Len(sessionOps), ok \in BOOLEAN : AttachCallback(i, ok)
    \/ \E i \in 1..Len(sessionOps), ok \in BOOLEAN : EnableCallback(i, ok)
    \/ Announced(FilterInputs)
    \/ Announced(RefusedInputs)
    \/ Headers(BothIdsInputs)
    \/ Finished(BothIdsInputs) /\ Bounded(MaxFilterOps, MaxFilterTasks)
    \/ Failed(BothIdsInputs) /\ Bounded(MaxFilterOps, MaxFilterTasks)
    \/ BodyRead(FilterInputs)

SpecFilter == Init /\ [][FilterNext]_vars

\* the records that the messages posted in the last step carry
PostedRecords(out) ==
    UNION {UNION {IF out[p][k].type = "records.added" THEN {out[p][k].record}
                  ELSE IF out[p][k].type = "records.snapshot"
                  THEN {out[p][k].records[j] : j \in 1..Len(out[p][k].records)}
                  ELSE {} : k \in 1..Len(out[p])} : p \in Ports}

\* C16: a request announced only with a resource type outside {Fetch, XHR} never
\* has a pending entry, never has a handler started for its headers or terminal
\* events, and no record with its id is stored or posted
RefusedTypeNeverRecorded ==
    /\ "r2" \notin DOMAIN pendingRequests
    /\ \A i \in 1..Len(tasks) : tasks[i].requestId # "r2"
    /\ \A i \in 1..Len(recordBuffer) : recordBuffer[i].id # "r2"
    /\ \A record \in PostedRecords(outbox) : record.id # "r2"

\* the attached tab announced r2 as an Image and the announcement was refused,
\* while r1 was pending
AnnouncedRefusedType ==
    /\ last.op = "Network.requestWillBeSent"
    /\ last.req = Some("r2")
    /\ last.tab = last.pre
    /\ ~last.ok
    /\ "r1" \in DOMAIN pendingRequests

\* C11: detach(t) while attachedTabId is not t (null, or another tab) changes no
\* state, sends no release command and posts no message
DetachIsNoOpWhenNotAttached ==
    [][(last'.op = "detach" /\ last'.pre # last'.tab)
         => /\ UNCHANGED <<attachedTabId, pendingRequests, recordBuffer, hostAttached,
                           sessionOps, tasks, panelPorts>>
            /\ outbox' = NoOut]_vars

\* detach(t) was handled while attached to the other tab, with a request pending
\* and a record stored
DetachedOtherTab ==
    /\ last.op = "detach"
    /\ ~IsNull(last.pre)
    /\ last.pre # last.tab
    /\ pendingRequests # EmptyMap
    /\ recordBuffer # <<>>

\* C12: when the release of detach(t) completes, successfully or not,
\* attachedTabId is null, the Pending Request Table is empty and every observer
\* is sent exactly one message, the status update carrying null (no error)
DetachEndsUnattached ==
    last.op = "detached"
       => /\ attachedTabId = None
          /\ pendingRequests = EmptyMap
          /\ \A p \in panelPorts : outbox[p] = <<StatusMsg(None)>>

\* the release of a detach command failed at the host, with an observer connected
DetachReleaseFailed ==
    /\ last.op = "detached"
    /\ ~last.ok
    /\ panelPorts # {}

\* C13: a revoke of the attached tab leaves attachedTabId null and the Pending
\* Request Table empty and posts a status update carrying null to every
\* observer; a revoke of any other tab changes no engine state and posts nothing
RevokeIsDetach ==
    [][last'.op = "revoke"
         => IF last'.tab = last'.pre
            THEN /\ attachedTabId' = None
                 /\ pendingRequests' = EmptyMap
                 /\ \A p \in panelPorts' : outbox'[p] = <<StatusMsg(None)>>
                 /\ UNCHANGED <<recordBuffer, panelPorts, sessionOps>>
            ELSE /\ UNCHANGED <<attachedTabId, pendingRequests, recordBuffer, panelPorts,
                                sessionOps, tasks>>
                 /\ outbox' = NoOut]_vars

\* the attached tab was revoked with a record stored and a body read
\* outstanding, an observer connected
RevokedAttachedTab ==
    /\ last.op = "revoke"
    /\ last.ok
    /\ panelPorts # {}
    /\ tasks # <<>>
    /\ last.len > 0

\* C14: attachedTabId changes only to null, or from null to a tab as the
\* successful completion of an attach handshake; it never goes in one step from
\* one tab to another
SessionStateMachine ==
    [][attachedTabId' # attachedTabId
         => \/ attachedTabId' = None
            \/ /\ attachedTabId = None
               /\ last'.op = "enableDone"
               /\ last'.ok
               /\ attachedTabId' = last'.tab]_vars

\* C15: an event of a tab other than the attached one, and any event while
\* attachedTabId is null, changes neither the Pending Request Table nor the
\* Record Store, starts no body read and posts no message
ForeignEventDiscarded ==
    [][(/\ last'.op \in {"Network.requestWillBeSent", "Network.responseReceived",
                         "Network.loadingFinished", "Network.loadingFailed"}
        /\ last'.tab # last'.pre)
         => /\ UNCHANGED <<attachedTabId, pendingRequests, recordBuffer, tasks>>
            /\ outbox' = NoOut]_vars

\* loading-finished arrived from the tab that is not the attached one, while the
\* request it names is pending on the attached tab
ForeignEventForPendingId ==
    /\ last.op = "Network.loadingFinished"
    /\ ~IsNull(last.pre)
    /\ last.tab # last.pre
    /\ "r1" \in DOMAIN pendingRequests
    /\ tasks = <<>>

---------------------------------------------------------------------------
(* Claims checked under SpecRouter *)

\* C17: a headers, loading-finished or loading-failed event of the attached tab
\* for a request without an entry in the Pending Request Table changes neither
\* the table nor the Record Store, starts no body read and posts no message
UnknownRequestEventDropped ==
    [][(/\ last'.op \in {"Network.responseReceived", "Network.loadingFinished",
                         "Network.loadingFailed"}
        /\ last'.tab = last'.pre
        /\ ~IsNull(last'.req)
        /\ ~MapHas(pendingRequests, The(last'.req)))
         => /\ UNCHANGED <<attachedTabId, pendingRequests, recordBuffer, tasks>>
            /\ outbox' = NoOut]_vars

\* loading-failed arrived for r1 on the attached tab after r1's record had been
\* pushed and its entry deleted
TerminalEventWithoutEntry ==
    /\ last.op = "Network.loadingFailed"
    /\ ~IsNull(last.pre)
    /\ last.tab = last.pre
    /\ last.req = Some("r1")
    /\ ~last.ok
    /\ last.len > 0

\* the handlers that end in this step, as they stood when they last suspended; a
\* handler that never suspends is the one its terminal event starts
EndingHandlers ==
    IF last'.op \in {"requestBodyRead", "responseBodyRead"}
    THEN {tasks[i] : i \in {j \in 1..Len(tasks) : /\ tasks' = RemoveAt(tasks, j)
                                                  /\ Some(tasks[j].requestId) = last'.req}}
    ELSE IF /\ last'.op \in {"Network.loadingFinished", "Network.loadingFailed"}
            /\ last'.tab = last'.pre
            /\ last'.ok
            /\ tasks' = tasks
    THEN {Task(IF last'.op = "Network.loadingFinished" THEN "finished" ELSE "failed",
               The(last'.req), pendingRequests[The(last'.req)],
               recordBuffer'[Len(recordBuffer')].encodedDataLength)}
    ELSE {}

\* the record pushed in this step, when a handler ends in it
PushedRecord == recordBuffer'[Len(recordBuffer')]

\* C18: when the handler of loading-finished for r ends, r having been announced
\* and then had headers with status s and mimeType m delivered in the same
\* session, every observer is sent exactly one records.added, whose record has
\* id r, the announced url and method, status s and mimeType m
HeadersReachRecord ==
    [][\A task \in EndingHandlers :
          (task.kind = "finished" /\ ~task.stale /\ ~IsNull(task.seen))
             => /\ \A p \in panelPorts' : outbox'[p] = <<AddedMsg(PushedRecord)>>
                /\ PushedRecord.id = task.requestId
                /\ PushedRecord.url = task.pending.url
                /\ PushedRecord.method = task.pending.method
                /\ PushedRecord.status = The(task.seen).status
                /\ PushedRecord.mimeType = The(task.seen).mimeType]_vars

\* C19: a loading-finished handler never waits for Network.getResponseBody when
\* encodedDataLength is over MAX_BODY_BYTES, and its record then has the body
\* {text null, truncated, error BODY_TOO_LARGE}; at or below MAX_BODY_BYTES the
\* handler ends at the callback of its one read and the body is not truncated
ResponseSizeThreshold ==
    [][/\ \A i \in 1..Len(tasks') :
             tasks'[i].pc = "responseBody" => tasks'[i].encodedDataLength <= MAX_BODY_BYTES
       /\ \A task \in EndingHandlers :
             task.kind = "finished"
                => IF task.encodedDataLength > MAX_BODY_BYTES
                   THEN /\ last'.op # "responseBodyRead"
                        /\ PushedRecord.body =
                              [text |-> None, isBase64 |-> FALSE, truncated |-> TRUE,
                               error |-> Some(createError("BODY_TOO_LARGE", "undefined"))]
                   ELSE /\ last'.op = "responseBodyRead"
                        /\ task.pc = "responseBody"
                        /\ ~PushedRecord.body.truncated]_vars

\* a handler that had waited for the request's post data ended without a
\* response body read, its encodedDataLength being over the threshold
SkippedResponseRead ==
    /\ last.op = "requestBodyRead"
    /\ Len(recordBuffer) = 1
    /\ recordBuffer[1].encodedDataLength > MAX_BODY_BYTES
    /\ recordBuffer[1].body.truncated

\* C20: a request announced without post data (hasPostData false or absent, no
\* inline postData) never has a handler waiting for Network.getRequestPostData,
\* and its record's requestBody is {text null, truncated false} without error
NoPostDataNoRead ==
    [][/\ \A i \in 1..Len(tasks') :
             tasks'[i].pc = "requestBody"
                => \/ tasks'[i].pending.hasPostData
                   \/ ~IsNull(tasks'[i].pending.requestPostData)
       /\ \A task \in EndingHandlers :
             (~task.pending.hasPostData /\ IsNull(task.pending.requestPostData))
                => PushedRecord.requestBody =
                      [text |-> None, truncated |-> FALSE, error |-> None]]_vars

\* the record of a GET request without post data was pushed when its response
\* body read returned
RecordedWithoutPostData ==
    /\ last.op = "responseBodyRead"
    /\ last.ok
    /\ Len(recordBuffer) = 1
    /\ recordBuffer[1].method = "GET"
    /\ recordBuffer[1].requestBody.text = None
    /\ recordBuffer[1].body.text = Some(BodyText)

\* the request body that the Network.getRequestPostData callback of this step
\* resolved: the handler goes on to the response body or ends with its record
ResolvedRequestBody ==
    IF Len(tasks') < Len(tasks) THEN PushedRecord.requestBody
    ELSE tasks'[CHOOSE i \in 1..Len(tasks) : tasks'[i] # tasks[i]].requestBody

\* C21: no stored or posted record has a request-body text over
\* MAX_REQUEST_BODY_BYTES; no handler waits for Network.getRequestPostData when
\* the announcement had inline post data; inline post data over the limit gives
\* {text null, truncated, REQUEST_BODY_TOO_LARGE}; a failed read gives
\* {text null, not truncated, REQUEST_BODY_READ_FAILED}
RequestBodyWithinLimit ==
    [][/\ \A record \in PostedRecords(outbox') \cup
                        {recordBuffer'[k] : k \in 1..Len(recordBuffer')} :
             /\ ~IsNull(record.requestBody.text)
                   => /\ getTextByteLength(The(record.requestBody.text))
                            <= MAX_REQUEST_BODY_BYTES
                      /\ ~record.requestBody.truncated
                      /\ IsNull(record.requestBody.error)
             /\ record.requestBody.truncated
                   => record.requestBody =
                         [text |-> None, truncated |-> TRUE,
                          error |-> Some(createError("REQUEST_BODY_TOO_LARGE", "undefined"))]
       /\ \A i \in 1..Len(tasks') :
             tasks'[i].pc = "requestBody" => IsNull(tasks'[i].pending.requestPostData)
       /\ \A task \in EndingHandlers :
             (/\ ~IsNull(task.pending.requestPostData)
              /\ getTextByteLength(The(task.pending.requestPostData))
                    > MAX_REQUEST_BODY_BYTES)
                => /\ last'.op \in {"Network.loadingFinished", "Network.loadingFailed",
                                    "responseBodyRead"}
                   /\ PushedRecord.requestBody =
                         [text |-> None, truncated |-> TRUE,
                          error |-> Some(createError("REQUEST_BODY_TOO_LARGE", "undefined"))]
       /\ (last'.op = "requestBodyRead" /\ ~last'.ok)
             => ResolvedRequestBody =
                   [text |-> None, truncated |-> FALSE,
                    error |-> Some(createError("REQUEST_BODY_READ_FAILED", "lastError"))]]_vars

\* post data read by command came back over the limit: the record pushed at the
\* read's callback has no text and the error REQUEST_BODY_TOO_LARGE
FetchedPostDataOverLimit ==
    /\ last.op = "requestBodyRead"
    /\ last.ok
    /\ Len(recordBuffer) = 1
    /\ recordBuffer[1].requestBody.truncated
    /\ recordBuffer[1].requestBody.error =
          Some(createError("REQUEST_BODY_TOO_LARGE", "undefined"))

\* the request bodies that buildRequestBody can give for a pending entry, by
\* whether the read command, if one was sent, succeeded
RequestBodiesFor(pending, readOk) ==
    IF ~pending.hasPostData /\ IsNull(pending.requestPostData)
    THEN {[text |-> None, truncated |-> FALSE, error |-> None]}
    ELSE IF ~IsNull(pending.requestPostData)
    THEN {IF getTextByteLength(The(pending.requestPostData)) > MAX_REQUEST_BODY_BYTES
          THEN [text |-> None, truncated |-> TRUE,
                error |-> Some(createError("REQUEST_BODY_TOO_LARGE", "undefined"))]
          ELSE [text |-> pending.requestPostData, truncated |-> FALSE, error |-> None]}
    ELSE IF ~readOk
    THEN {[text |-> None, truncated |-> FALSE,
           error |-> Some(createError("REQUEST_BODY_READ_FAILED", "lastError"))]}
    ELSE {[text |-> None, truncated |-> FALSE, error |-> None],
          [text |-> Some(SmallText), truncated |-> FALSE, error |-> None],
          [text |-> None, truncated |-> TRUE,
           error |-> Some(createError("REQUEST_BODY_TOO_LARGE", "undefined"))]}

\* C22: a loading-failed event of the attached tab for a pending request starts a
\* handler that never waits for Network.getResponseBody; when it ends, the entry
\* is removed and one record is pushed and posted, with encodedDataLength 0, the
\* body {text null, not truncated, REQUEST_FAILED} and the request body that
\* buildRequestBody gives for the entry
FailedRequestRecorded ==
    [][/\ \A i \in 1..Len(tasks') :
             tasks'[i].kind = "failed" => tasks'[i].pc = "requestBody"
       /\ (/\ last'.op = "Network.loadingFailed"
           /\ last'.tab = last'.pre
           /\ last'.ok)
             => \/ EndingHandlers # {}
                \/ /\ Len(tasks') = Len(tasks) + 1
                   /\ tasks'[Len(tasks')].kind = "failed"
                   /\ tasks'[Len(tasks')].requestId = The(last'.req)
                   /\ tasks'[Len(tasks')].pending = pendingRequests[The(last'.req)]
       /\ \A task \in EndingHandlers :
             task.kind = "failed"
                => /\ last'.op \in {"Network.loadingFailed", "requestBodyRead"}
                   /\ ~MapHas(pendingRequests', task.requestId)
                   /\ Len(recordBuffer') > 0
                   /\ \A p \in panelPorts' : outbox'[p] = <<AddedMsg(PushedRecord)>>
                   /\ PushedRecord.id = task.requestId
                   /\ PushedRecord.url = task.pending.url
                   /\ PushedRecord.encodedDataLength = 0
                   /\ PushedRecord.body =
                         [text |-> None, isBase64 |-> FALSE, truncated |-> FALSE,
                          error |-> Some(createError("REQUEST_FAILED", "undefined"))]
                   /\ PushedRecord.requestBody
                         \in RequestBodiesFor(task.pending, last'.ok)]_vars

\* a failed request's post data was read by command and its record pushed at the
\* read's callback, with an observer connected
FailedAfterPostDataRead ==
    /\ last.op = "requestBodyRead"
    /\ last.ok
    /\ panelPorts # {}
    /\ Len(recordBuffer) = 1
    /\ recordBuffer[1].requestBody.text = Some(SmallText)
    /\ recordBuffer[1].body.error = Some(createError("REQUEST_FAILED", "undefined"))

---------------------------------------------------------------------------
(* The broadcast hub: two ports that connect and disconnect, under any name, *)
(* while the engine attaches, records, clears and detaches on one tab        *)

MaxHubOps == 1
MaxHubTasks == 1

HubInputs ==
    [ports |-> Ports, names |-> {"panel", "popup"},
     commands |-> {1, 3, 5, 6, 7, 8, 9, 10, 11, 12, 13, 14, 15},
     tabs |-> {1}, requestIds |-> {"r1"}, types |-> {"Fetch"}, requests |-> {1},
     stamps |-> Stamps, lengths |-> {10}, bodyResults |-> {1}]

HubNext ==
    \/ Connects(HubInputs)
    \/ Disconnects(HubInputs)
    \/ Commands(HubInputs) /\ Bounded(MaxHubOps, MaxHubTasks)
    \/ \E i \in 1..Len(sessionOps) : DetachCallback(i)
    \/ \E i \in 1..Len(sessionOps), ok \in BOOLEAN : AttachCallback(i, ok)
    \/ \E i \in 1..Len(sessionOps), ok \in BOOLEAN : EnableCallback(i, ok)
    \/ Announced(HubInputs)
    \/ Finished(HubInputs) /\ Bounded(MaxHubOps, MaxHubTasks)
    \/ BodyRead(HubInputs)

SpecHub == Init /\ [][HubNext]_vars

\* C23: a port that connects as "panel" is registered and is sent, alone and at
\* once, one records.snapshot with the whole Record Store in order and the
\* current attachedTabId; it stays registered until it disconnects, and every
\* later broadcast (a pushed record, a change of attachedTabId, an emptied store)
\* is posted to every registered port alike
SubscribeGetsSnapshotThenBroadcasts ==
    [][/\ (last'.op = "connect" /\ last'.ok)
             => \E port \in panelPorts' \ panelPorts :
                   /\ panelPorts' = panelPorts \cup {port}
                   /\ outbox'[port] = <<SnapshotMsg(recordBuffer, attachedTabId)>>
                   /\ \A q \in Ports \ {port} : outbox'[q] = <<>>
                   /\ UNCHANGED <<recordBuffer, attachedTabId>>
       /\ panelPorts' # panelPorts => last'.op \in {"connect", "disconnect"}
       /\ last'.op # "connect"
             => /\ \A p, q \in panelPorts' : outbox'[p] = outbox'[q]
                /\ EndingHandlers # {}
                      => \A p \in panelPorts' : outbox'[p] = <<AddedMsg(PushedRecord)>>
                /\ attachedTabId' # attachedTabId
                      => \A p \in panelPorts' :
                            \E k \in 1..Len(outbox'[p]) :
                               outbox'[p][k] = StatusMsg(attachedTabId')
                /\ last'.op = "records.clear"
                      => \A p \in panelPorts' :
                            outbox'[p] = <<SnapshotMsg(<<>>, attachedTabId')>>]_vars

\* a second port connected as "panel" while the store held two records and a tab
\* was attached
SubscribedToFullStore ==
    /\ last.op = "connect"
    /\ last.ok
    /\ last.len = 2
    /\ ~IsNull(attachedTabId)
    /\ Cardinality(panelPorts) = 2
    /\ recordBuffer[1] # recordBuffer[2]

\* C24: a registered port that has disconnected is posted no message by any later step
\* (push, attach, detach, clear, status, records.get) until a new connection
\* under its name is made
NoSendAfterDisconnect ==
    \A p \in Ports : portState[p] = "closed" => outbox[p] = <<>>

\* a record was pushed and posted to the registered port after the other port,
\* registered before, had disconnected
PushedAfterDisconnect ==
    /\ last.op = "responseBodyRead"
    /\ \E p, q \in Ports :
          /\ portState[p] = "closed"
          /\ q \in panelPorts
          /\ Len(outbox[q]) = 1
          /\ outbox[q][1].type = "records.added"

\* C25: records.clear empties the Record Store and the Pending Request Table,
\* leaves attachedTabId (and the host attachment and suspended calls) as they
\* were, and posts to every registered port exactly one records.snapshot
\* without records, carrying attachedTabId
ClearEmptiesStoreAndTable ==
    [][last'.op = "records.clear"
         => /\ recordBuffer' = <<>>
            /\ pendingRequests' = EmptyMap
            /\ UNCHANGED <<attachedTabId, hostAttached, sessionOps, panelPorts>>
            /\ \A p \in panelPorts : outbox'[p] = <<SnapshotMsg(<<>>, attachedTabId)>>
            /\ \A p \in Ports \ panelPorts : outbox'[p] = <<>>]_vars

\* records.clear was handled while attached, with two records stored, a request
\* pending whose handler waits for its body, and two ports registered
ClearedWhileRecording ==
    /\ last.op = "records.clear"
    /\ last.len = 2
    /\ ~IsNull(attachedTabId)
    /\ Cardinality(panelPorts) = 2
    /\ tasks # <<>>
    /\ tasks[1].stale

\* the malformed values among RawPanelMessages: attach or detach without a
\* numeric tabId, an unknown or missing type, values that are not objects
MalformedCommands == {8, 9, 10, 11, 12, 13, 14, 15}

\* C26: parsePanelMessage returns null for every malformed value, and a step
\* whose message parsed to null changes no engine state, suspends no call at the
\* instrumentation source and posts no message to any port
MalformedCommandDropped ==
    [][/\ \A k \in MalformedCommands : IsNull(parsePanelMessage(RawPanelMessages[k]))
       /\ last'.op = "panel.dropped"
             => /\ UNCHANGED <<attachedTabId, panelPorts, pendingRequests, recordBuffer,
                               hostAttached, sessionOps, tasks>>
                /\ outbox' = NoOut]_vars

\* a malformed message arrived while a tab was attached, a record stored, a body
\* read outstanding and two ports registered
MalformedWhileRecording ==
    /\ last.op = "panel.dropped"
    /\ ~IsNull(attachedTabId)
    /\ recordBuffer # <<>>
    /\ tasks # <<>>
    /\ Cardinality(panelPorts) = 2

\* two entries come from the same announcement: they agree in everything that
\* only parseRequestWillBeSent sets (headers change status, mimeType and
\* resourceType alone)
SameAnnouncement(a, b) ==
    /\ a.requestId = b.requestId
    /\ a.url = b.url
    /\ a.method = b.method
    /\ a.hasPostData = b.hasPostData
    /\ a.requestPostData = b.requestPostData
    /\ a.timeStamp = b.timeStamp

\* the steps that reset the session: an attach that empties the table, the
\* completion of a release, a revoke of the attached tab, records.clear
SessionReset ==
    \/ last'.op \in {"detached", "switched", "records.clear"}
    \/ last'.op = "attach" /\ last'.pre # last'.tab
    \/ last'.op = "revoke" /\ last'.ok

\* C27: an entry leaves the Pending Request Table only in a step that resets the
\* session or in the step that pushes the record of the handler started for
\* that very entry; the end of a handler started for an earlier announcement of
\* r does not remove the entry of a later announcement of r; the end of a
\* handler always removes its own entry
PendingRemovedOnlyAtOutcome ==
    [][/\ \A r \in DOMAIN pendingRequests \ DOMAIN pendingRequests' :
             \/ SessionReset
             \/ \E task \in EndingHandlers :
                   /\ task.requestId = r
                   /\ PushedRecord.id = r
                   /\ SameAnnouncement(task.pending, pendingRequests[r])
       /\ \A task \in EndingHandlers :
             (/\ ~task.stale
              /\ MapHas(pendingRequests, task.requestId)
              /\ SameAnnouncement(task.pending, pendingRequests[task.requestId]))
                => ~MapHas(pendingRequests', task.requestId)]_vars

---------------------------------------------------------------------------
(* Progress of the terminal handlers: the host answers every command it was *)
(* sent, the oldest first                                                   *)

MaxLiveOps == 1
MaxLiveTasks == 1
MaxLiveRecords == 2

LiveInputs ==
    [ports |-> {"p1"}, names |-> {"panel"}, commands |-> {1},
     tabs |-> {1}, requestIds |-> {"r1"}, types |-> {"Fetch"},
     requests |-> {1, 2}, stamps |-> {1000},
     lengths |-> {10, MAX_BODY_BYTES + 1}, responses |-> {1},
     postDataResults |-> {1, 4}, bodyResults |-> {1, 4}]

\* a request is announced while the store holds fewer than MaxLiveRecords records
LiveNext ==
    \/ Connects(LiveInputs)
    \/ Commands(LiveInputs) /\ Bounded(MaxLiveOps, MaxLiveTasks)
    \/ \E i \in 1..Len(sessionOps), ok \in BOOLEAN : AttachCallback(i, ok)
    \/ \E i \in 1..Len(sessionOps), ok \in BOOLEAN : EnableCallback(i, ok)
    \/ Announced(LiveInputs) /\ Len(recordBuffer) < MaxLiveRecords
    \/ Headers(LiveInputs)
    \/ Finished(LiveInputs) /\ Bounded(MaxLiveOps, MaxLiveTasks)
    \/ Failed(LiveInputs) /\ Bounded(MaxLiveOps, MaxLiveTasks)
    \/ PostDataRead(LiveInputs)
    \/ BodyRead(LiveInputs)

\* index.ts:239-251  the callback of the command sent first arrives
LiveFairness ==
    /\ WF_vars(\E k \in LiveInputs.postDataResults :
                  RequestBodyCallback(1, PostDataResults[k]))
    /\ WF_vars(\E k \in LiveInputs.bodyResults :
                  ResponseBodyCallback(1, ResponseBodyResults[k]))

SpecLive == Init /\ [][LiveNext]_vars /\ LiveFairness

\* a loading-finished handler for r waits for a body
FinishedHandlerWaits(r) ==
    \E i \in 1..Len(tasks) : tasks[i].kind = "finished" /\ tasks[i].requestId = r

\* the last step was the callback of a read for r and pushed r's record, and the
\* table has no entry for r
RecordPushedAtCallback(r) ==
    /\ last.op \in {"requestBodyRead", "responseBodyRead"}
    /\ last.req = Some(r)
    /\ Len(recordBuffer) > 0
    /\ recordBuffer[Len(recordBuffer)].id = r
    /\ \A p \in panelPorts :
          outbox[p] = <<AddedMsg(recordBuffer[Len(recordBuffer)])>>
    /\ ~MapHas(pendingRequests, r)

\* C28: when a loading-finished handler for r waits for a body read and the host
\* answers every read, a record for r is eventually pushed and posted and r has
\* no entry in the Pending Request Table
FinishedEventuallyRecorded ==
    FinishedHandlerWaits("r1") ~> RecordPushedAtCallback("r1")

\* the record of a finished request was pushed at the callback of its response
\* body read, after its post data had been read by command
RecordedAfterBothReads ==
    /\ RecordPushedAtCallback("r1")
    /\ last.op = "responseBodyRead"
    /\ recordBuffer[Len(recordBuffer)].requestBody.text = Some(SmallText)
    /\ recordBuffer[Len(recordBuffer)].body.text = Some(BodyText)

---------------------------------------------------------------------------
(* Order of the body reads and the record *)

\* the records that the records.added messages posted in the last step carry
AddedRecords(out) ==
    UNION {{out[p][k].record : k \in {j \in 1..Len(out[p]) :
                                         out[p][j].type = "records.added"}} : p \in Ports}

\* C29: no records.added for a request is posted while a handler for that
\* request still waits for the callback of Network.getRequestPostData or
\* Network.getResponseBody
NoRecordWhileReadOutstanding ==
    \A record \in AddedRecords(outbox) :
       \A i \in 1..Len(tasks) : tasks[i].requestId # record.id

\* index.ts:202, 148  the read commands whose callbacks are outstanding, each with
\* the request it reads
OutstandingReads(ts) ==
    {<<ts[i].requestId,
       IF ts[i].pc = "requestBody" THEN "Network.getRequestPostData"
       ELSE "Network.getResponseBody">> : i \in 1..Len(ts)}

\* C30: when loading-finished starts the handler of a request whose post data
\* must be read by command and whose response body is within the size
\* threshold, Network.getResponseBody is sent without waiting for
\* Network.getRequestPostData: both reads of the request are outstanding
BodyReadsConcurrent ==
    [][(/\ last'.op = "Network.loadingFinished"
        /\ last'.tab = last'.pre
        /\ last'.ok
        /\ pendingRequests[The(last'.req)].hasPostData
        /\ IsNull(pendingRequests[The(last'.req)].requestPostData)
        /\ Len(tasks') = Len(tasks) + 1
        /\ tasks'[Len(tasks')].encodedDataLength <= MAX_BODY_BYTES)
         => {<<The(last'.req), "Network.getRequestPostData">>,
             <<The(last'.req), "Network.getResponseBody">>}
               \subseteq OutstandingReads(tasks')]_vars

---------------------------------------------------------------------------
(* Two requests in flight: r1 is announced first, r2 after it, each once; *)
(* their terminal events and the callbacks of their reads arrive in any   *)
(* order, and a read may succeed, fail or stay unanswered                 *)

MaxPairOps == 1
MaxPairTasks == 2

PairInputs ==
    [ports |-> {"p1"}, names |-> {"panel"}, commands |-> {1},
     tabs |-> {1}, requestIds |-> RequestIds, types |-> {"Fetch"},
     requests |-> {1, 2}, stamps |-> {1000}, lengths |-> {10},
     postDataResults |-> {1, 4}, bodyResults |-> {1, 4}]

FirstInputs == [PairInputs EXCEPT !.requestIds = {"r1"}]

SecondInputs == [PairInputs EXCEPT !.requestIds = {"r2"}, !.stamps = {2000}]

PairNext ==
    \/ Connects(PairInputs)
    \/ Commands(PairInputs) /\ Bounded(MaxPairOps, MaxPairTasks)
    \/ \E i \in 1..Len(sessionOps), ok \in BOOLEAN : AttachCallback(i, ok)
    \/ \E i \in 1..Len(sessionOps), ok \in BOOLEAN : EnableCallback(i, ok)
    \/ Announced(FirstInputs) /\ "r1" \notin announcedIds
    \/ Announced(SecondInputs) /\ "r1" \in announcedIds /\ "r2" \notin announcedIds
    \/ Finished(PairInputs) /\ Bounded(MaxPairOps, MaxPairTasks)
    \/ Failed(PairInputs) /\ Bounded(MaxPairOps, MaxPairTasks)
    \/ PostDataRead(PairInputs)
    \/ BodyRead(PairInputs)

SpecPair == Init /\ [][PairNext]_vars

\* the suspended handlers of the requests other than r, in their order
HandlersOfOthers(ts, r) == SelectSeq(ts, LAMBDA t : t.requestId # r)

\* the response bodies that a handler can end with, by its kind and by what the
\* last step was
ResponseBodiesFor(task, op, readOk) ==
    IF task.kind = "failed"
    THEN {[text |-> None, isBase64 |-> FALSE, truncated |-> FALSE,
           error |-> Some(createError("REQUEST_FAILED", "undefined"))]}
    ELSE IF op # "responseBodyRead"
    THEN {[text |-> None, isBase64 |-> FALSE, truncated |-> TRUE,
           error |-> Some(createError("BODY_TOO_LARGE", "undefined"))]}
    ELSE IF ~readOk
    THEN {[text |-> None, isBase64 |-> FALSE, truncated |-> FALSE,
           error |-> Some(createError("BODY_READ_FAILED", "lastError"))]}
    ELSE {[text |-> t, isBase64 |-> b, truncated |-> FALSE, error |-> None] :
             t \in {None, Some(BodyText)}, b \in BOOLEAN}

\* C31: the callback of a body read for request r, successful or failed, leaves
\* attachedTabId, the host attachment, the entries and the suspended handlers of
\* the other requests and the stored records as they were, apart from pushing
\* r's own record; it posts nothing but records.added for r; a failed read shows
\* in r's own requestBody or body; error events are posted only when an attach
\* fails; and the record a handler ends with is built from its own entry and
\* its own reads
ReadFailureIsLocal ==
    [][/\ last'.op \in {"requestBodyRead", "responseBodyRead"}
             => LET r == The(last'.req)
                IN  /\ UNCHANGED <<attachedTabId, hostAttached, sessionOps, panelPorts>>
                    /\ \A q \in DOMAIN pendingRequests \ {r} :
                          /\ MapHas(pendingRequests', q)
                          /\ pendingRequests'[q] = pendingRequests[q]
                    /\ HandlersOfOthers(tasks', r) = HandlersOfOthers(tasks, r)
                    /\ \/ recordBuffer' = recordBuffer
                       \/ /\ Len(recordBuffer') > 0
                          /\ PushedRecord.id = r
                          /\ recordBuffer' = pushRecordBuffer(recordBuffer, PushedRecord)
                    /\ \A p \in Ports : \A k \in 1..Len(outbox'[p]) :
                          /\ outbox'[p][k].type = "records.added"
                          /\ outbox'[p][k].record.id = r
                    /\ (last'.op = "requestBodyRead" /\ ~last'.ok)
                          => ResolvedRequestBody.error =
                                Some(createError("REQUEST_BODY_READ_FAILED", "lastError"))
       /\ \A p \in Ports : \A k \in 1..Len(outbox'[p]) :
             outbox'[p][k].type = "error"
                => last'.op \in {"attachDone", "enableDone"} /\ ~last'.ok
       /\ \A task \in EndingHandlers :
             /\ PushedRecord.id = task.requestId
             /\ PushedRecord.url = task.pending.url
             /\ PushedRecord.method = task.pending.method
             /\ PushedRecord.timeStamp = task.pending.timeStamp
             /\ PushedRecord.requestBody
                   \in RequestBodiesFor(task.pending, TRUE)
                          \cup RequestBodiesFor(task.pending, FALSE)
             /\ PushedRecord.body \in ResponseBodiesFor(task, last'.op, last'.ok)]_vars

\* r2's record was pushed with its post data and body read, while the handler of
\* r1, whose post data read had failed, still waits for its response body
RecordedBesideFailedRead ==
    /\ last.op = "responseBodyRead"
    /\ last.req = Some("r2")
    /\ last.ok
    /\ Len(recordBuffer) = 1
    /\ recordBuffer[1].id = "r2"
    /\ recordBuffer[1].requestBody.text = Some(SmallText)
    /\ recordBuffer[1].body.text = Some(BodyText)
    /\ Len(tasks) = 1
    /\ tasks[1].requestId = "r1"
    /\ tasks[1].pc = "responseBody"
    /\ tasks[1].requestBody.error =
          Some(createError("REQUEST_BODY_READ_FAILED", "lastError"))
    /\ MapHas(pendingRequests, "r1")

\* C32: the Record Store changes only by being emptied or by a push at its end,
\* made in the step in which a handler's last read completes (or in the step of
\* the terminal event when no read is needed); the pushed record is that
\* handler's and is posted in the same step as the one records.added of the
\* step, so the store's order is the order of the records.added messages and of
\* the completions, whatever the order of the announcements
RecordsInCompletionOrder ==
    [][/\ recordBuffer' # recordBuffer
             => \/ recordBuffer' = <<>>
                \/ /\ Len(recordBuffer') > 0
                   /\ recordBuffer' =
                         Append(IF Len(recordBuffer) >= MAX_RECORDS
                                THEN Tail(recordBuffer) ELSE recordBuffer, PushedRecord)
                   /\ EndingHandlers # {}
                   /\ \A task \in EndingHandlers : task.requestId = PushedRecord.id
                   /\ \A p \in panelPorts' : outbox'[p] = <<AddedMsg(PushedRecord)>>
       /\ EndingHandlers # {} => recordBuffer' # recordBuffer
       /\ AddedRecords(outbox') # {}
             => /\ recordBuffer' # recordBuffer
                /\ Len(recordBuffer') > 0
                /\ AddedRecords(outbox') = {PushedRecord}]_vars

\* r1 was announced before r2, and r2's record stands before r1's in the store:
\* r1's last read completed after r2's
RecordedInReverseOrder ==
    /\ last.op \in {"requestBodyRead", "responseBodyRead"}
    /\ last.req = Some("r1")
    /\ Len(recordBuffer) = 2
    /\ recordBuffer[1].id = "r2"
    /\ recordBuffer[2].id = "r1"
    /\ recordBuffer[1].timeStamp = 2000
    /\ recordBuffer[2].timeStamp = 1000

\* C33: a Network.responseReceived event delivered for a request that has an
\* entry changes no field of the entry but status and mimeType, and an event
\* that is refused leaves the entry as it was
HeadersChangeOnlyStatus ==
    [][(/\ last'.op = "Network.responseReceived"
        /\ last'.tab = last'.pre
        /\ ~IsNull(last'.req)
        /\ MapHas(pendingRequests, The(last'.req)))
          => LET r == The(last'.req)
             IN  /\ MapHas(pendingRequests', r)
                 /\ pendingRequests'[r] =
                       [pendingRequests[r] EXCEPT
                           !.status = pendingRequests'[r].status,
                           !.mimeType = pendingRequests'[r].mimeType]
                 /\ ~last'.ok => pendingRequests'[r] = pendingRequests[r]]_vars

\* the part of C33 that the code keeps: the event changes at most status,
\* mimeType and resourceType, and a refused event changes nothing
HeadersChangeStatusAndType ==
    [][(/\ last'.op = "Network.responseReceived"
        /\ last'.tab = last'.pre
        /\ ~IsNull(last'.req)
        /\ MapHas(pendingRequests, The(last'.req)))
          => LET r == The(last'.req)
             IN  /\ MapHas(pendingRequests', r)
                 /\ pendingRequests'[r] =
                       [pendingRequests[r] EXCEPT
                           !.status = pendingRequests'[r].status,
                           !.mimeType = pendingRequests'[r].mimeType,
                           !.resourceType = pendingRequests'[r].resourceType]
                 /\ ~last'.ok => pendingRequests'[r] = pendingRequests[r]]_vars

\* an entry announced as Fetch holds resourceType XHR after its headers event
HeadersChangedResourceType ==
    /\ last.op = "Network.responseReceived"
    /\ last.ok
    /\ MapHas(pendingRequests, "r1")
    /\ pendingRequests["r1"].resourceType = "XHR"
    /\ pendingRequests["r1"].status = 404

---------------------------------------------------------------------------
(* Broadcasts with a port that throws: p1 is registered before p2, so that *)
(* panelPorts is iterated in PortOrder. While a registered port is broken  *)
(* the steps taken are those whose handler ends with its one broadcast     *)
(* (status, records.get, records.clear sent by a port that is still open,  *)
(* and the push of a record at a handler's end); an attach runs while no   *)
(* registered port is broken                                               *)

MaxSendOps == 1
MaxSendTasks == 1
MaxSendRecords == 1

SendCommands == {5, 6, 7}

SendInputs ==
    [ports |-> Ports, names |-> {"panel", "popup"}, commands |-> {1},
     tabs |-> {1}, requestIds |-> {"r1"}, types |-> {"Fetch"}, requests |-> {1},
     stamps |-> {1000}, lengths |-> {10}, bodyResults |-> {1, 4}]

NoBrokenPort == \A p \in panelPorts : portState[p] # "broken"

SendNext ==
    \/ \E name \in {"panel", "popup"} : PortConnect("p1", name) /\ "p2" \notin panelPorts
    \/ \E name \in {"panel", "popup"} : PortConnect("p2", name) /\ "p1" \in panelPorts
    \/ \E port \in Ports : PortBreak(port)
    \/ \E port \in Ports : PortDisconnect(port)
    \/ \E port \in Ports, k \in SendCommands :
          portState[port] = "open" /\ PanelMessage(port, RawPanelMessages[k])
    \/ Commands(SendInputs) /\ NoBrokenPort /\ Bounded(MaxSendOps, MaxSendTasks)
    \/ \E i \in 1..Len(sessionOps), ok \in BOOLEAN : AttachCallback(i, ok) /\ NoBrokenPort
    \/ \E i \in 1..Len(sessionOps), ok \in BOOLEAN : EnableCallback(i, ok) /\ NoBrokenPort
    \/ Announced(SendInputs) /\ Len(recordBuffer) < MaxSendRecords
    \/ Finished(SendInputs) /\ Bounded(MaxSendOps, MaxSendTasks)
    \/ BodyRead(SendInputs)

SpecSend == Init /\ [][SendNext]_vars

\* C34: a broadcast made by a command (status, records.get, records.clear) or
\* by the push of a record posts its message to every registered port on which
\* postMessage does not throw, whether or not postMessage throws on another
\* registered port
BroadcastIndependentPerPort ==
    [][(last'.op \in {"status", "records.get", "records.clear"} \/ EndingHandlers # {})
         => \A p \in panelPorts :
               portState[p] = "open" => Len(outbox'[p]) = 1]_vars

\* p1 is broken, and the status.update asked for by p2 was posted to no port
BroadcastStoppedAtBrokenPort ==
    /\ last.op = "status"
    /\ panelPorts = {"p1", "p2"}
    /\ portState["p1"] = "broken"
    /\ portState["p2"] = "open"
    /\ outbox["p2"] = <<>>

---------------------------------------------------------------------------
(* The panel's record list *)

\* part_001:636-650  what the panel's port.onMessage listener does to its record
\* list with a message its parser has accepted: records.snapshot replaces the
\* list, records.added is appended to it
panelApply(records, message) ==
    IF message.type = "records.snapshot" THEN message.records
    ELSE IF message.type = "records.added" THEN Append(records, message.record)
    ELSE records

RECURSIVE panelApplyAll(_, _)
panelApplyAll(records, messages) ==
    IF messages = <<>> THEN records
    ELSE panelApplyAll(panelApply(records, Head(messages)), Tail(messages))

\* C35: a port that connects is sent the Record Store, and every step that
\* changes the Record Store posts to every port that stays registered the
\* messages that carry the change: a panel whose list equalled the store before
\* the step holds the store after it
ObserversInSync ==
    [][/\ \A p \in panelPorts' \ panelPorts :
             panelApplyAll(<<>>, outbox'[p]) = recordBuffer'
       /\ \A p \in panelPorts \cap panelPorts' :
             panelApplyAll(recordBuffer, outbox'[p]) = recordBuffer']_vars

\* debugger.attach emptied a store that held records and posted nothing to the
\* registered port
StoreClearedUnannounced ==
    /\ last.op = "attach"
    /\ last.len > 0
    /\ recordBuffer = <<>>
    /\ panelPorts # {}
    /\ \A p \in Ports : outbox[p] = <<>>

---------------------------------------------------------------------------
(* The session changing under a handler that reads both bodies: two tabs,  *)
(* a request whose post data is read by command, detach, attach and revoke *)
(* between the two reads                                                   *)

MaxSwitchOps == 1
MaxSwitchTasks == 1

SwitchInputs ==
    [ports |-> {"p1"}, names |-> {"panel"}, commands |-> {1, 2, 3, 4},
     tabs |-> Tabs, requestIds |-> {"r1"}, types |-> {"Fetch"}, requests |-> {2},
     stamps |-> {1000}, lengths |-> {10}, postDataResults |-> {1, 4},
     bodyResults |-> {1, 4}]

SwitchNext ==
    \/ Connects(SwitchInputs)
    \/ Commands(SwitchInputs) /\ Bounded(MaxSwitchOps, MaxSwitchTasks)
    \/ Handshakes
    \/ Revokes(SwitchInputs)
    \/ Announced(SwitchInputs)
    \/ Finished(SwitchInputs) /\ Bounded(MaxSwitchOps, MaxSwitchTasks)
    \/ PostDataRead(SwitchInputs)
    \/ BodyRead(SwitchInputs)

SpecSwitch == Init /\ [][SwitchNext]_vars

\* C36: a handler that suspends at a terminal event sends its first read to the
\* tab attached then, and when the callback of Network.getRequestPostData lets
\* it go on to Network.getResponseBody, that command is sent to the same tab,
\* never to another tab and never without a tab
ReadsAddressTerminalTarget ==
    [][/\ (last'.op = "Network.loadingFinished" /\ Len(tasks') > Len(tasks))
             => /\ ~IsNull(attachedTabId)
                /\ tasks'[Len(tasks')].tabId = attachedTabId
       /\ last'.op = "requestBodyRead"
             => \A i \in 1..Len(tasks) :
                   (/\ Some(tasks[i].requestId) = last'.req
                    /\ tasks[i].pc = "requestBody"
                    /\ Len(tasks') = Len(tasks)
                    /\ tasks'[i].pc = "responseBody")
                      => /\ ~IsNull(tasks'[i].tabId)
                         /\ tasks'[i].tabId = tasks[i].tabId]_vars

\* the post data of r1 was read on tab 1 and its response body is being read on
\* tab 2
ResponseBodyReadOnOtherTab ==
    /\ last.op = "requestBodyRead"
    /\ last.tab = Some(1)
    /\ Len(tasks) = 1
    /\ tasks[1].pc = "responseBody"
    /\ tasks[1].tabId = Some(2)

\* C37: whenever attachedTabId is null the Pending Request Table is empty
NoPendingWhileUnattached ==
    IsNull(attachedTabId) => pendingRequests = EmptyMap

\* the host revoked the attached tab while the handler of r1, announced in this
\* session, waited for its response body: attachedTabId is null and the table
\* is empty
TableEmptiedAtRevoke ==
    /\ last.op = "revoke"
    /\ last.ok
    /\ last.pre = Some(1)
    /\ IsNull(attachedTabId)
    /\ "r1" \in announcedIds
    /\ Len(tasks) = 1
    /\ tasks[1].stale
    /\ pendingRequests = EmptyMap

\* C38: whenever attachedTabId is null and no attachToTab or detachFromTab call
\* is suspended, the host holds no tab for this extension
NoAttachmentLeftBehind ==
    (IsNull(attachedTabId) /\ sessionOps = <<>>) => hostAttached = {}

\* attach(1) failed at chrome.debugger.attach because the host still holds
\* tab 1, left behind by an earlier attach(1) that failed at Network.enable
RetriedAttachFails ==
    /\ last.op = "attachDone"
    /\ ~last.ok
    /\ last.tab = Some(1)
    /\ IsNull(attachedTabId)
    /\ sessionOps = <<>>
    /\ 1 \in hostAttached

\* C39: the completion of detachFromTab(t) changes attachedTabId only from t to
\* null; when attachedTabId names another tab by then, the completion leaves
\* attachedTabId and the Pending Request Table as they are and posts no
\* status.update
DetachCompletionOnlyUnsetsOwnTab ==
    [][last'.op = "detached"
         => /\ attachedTabId' # attachedTabId
                  => attachedTabId = last'.tab /\ IsNull(attachedTabId')
            /\ (~IsNull(attachedTabId) /\ attachedTabId # last'.tab)
                  => /\ UNCHANGED <<attachedTabId, pendingRequests>>
                     /\ \A p \in Ports : outbox'[p] = <<>>]_vars

\* detach(1) completed while the session was attached to tab 2: attachedTabId
\* is null and the host still holds tab 2
DetachCompletionUnsetOtherTab ==
    /\ last.op = "detached"
    /\ last.tab = Some(1)
    /\ last.pre = Some(2)
    /\ IsNull(attachedTabId)
    /\ 2 \in hostAttached
    /\ \E p \in panelPorts : outbox[p] = <<StatusMsg(None)>>

\* C40: the debugger.detach command, the completion of detachFromTab and
\* chrome.debugger.onDetach leave the Record Store as it is; the store loses
\* records only at an attach, at records.clear, or by the eviction of a push,
\* and every records.snapshot posted carries the whole store
DetachAndRevokeKeepRecords ==
    [][/\ last'.op \in {"detach", "detached", "revoke"} => recordBuffer' = recordBuffer
       /\ recordBuffer' # recordBuffer
             => \/ last'.op \in {"attach", "switched", "records.clear"}
                \/ /\ EndingHandlers # {}
                   /\ Len(recordBuffer') > 0
                   /\ recordBuffer' =
                         Append(IF Len(recordBuffer) >= MAX_RECORDS
                                THEN Tail(recordBuffer) ELSE recordBuffer, PushedRecord)
       /\ \A p \in Ports : \A k \in 1..Len(outbox'[p]) :
             outbox'[p][k].type = "records.snapshot"
                => outbox'[p][k].records = recordBuffer']_vars

\* detach(1) completed on the attached tab 1 with a record in the store, and the
\* record is still there
RecordsKeptAtDetach ==
    /\ last.op = "detached"
    /\ last.ok
    /\ last.tab = Some(1)
    /\ last.pre = Some(1)
    /\ IsNull(attachedTabId)
    /\ last.len = 1
    /\ Len(recordBuffer) = 1
    /\ recordBuffer[1].id = "r1"

====
